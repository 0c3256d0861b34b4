--------------------------- MODULE PluginTestProofs ---------------------------
(***************************************************************************)
(* Proofs about PluginTest, for every set of additional checks and every      *)
(* number of artifacts.                                                      *)
(***************************************************************************)
EXTENDS PluginTest, FiniteSetTheorems, TLAPS

\* The artifacts whose checks are over are the first Done ones.
Done == IF todo = {} THEN i ELSE i - 1

Bad(m) == {k \in 1..m : ~Good(args[k])}

Opened(m) == {k \in 1..m : ~Skips(args[k])}

\* The failures counted, and the global verdict, are those of the artifacts
\* that are over.
TallyInv ==
  /\ failed \in 0..Done /\ failed = Cardinality(Bad(Done))
  /\ globalOK <=> Bad(Done) = {}

\* The verdict on the artifact in hand is that of the checks already run on it.
VerdictInv ==
  todo # {} =>
    /\ i > 0 /\ ~Skips(args[i])
    /\ ok <=> \A c \in expected \ todo : Passes(args[i], c)

RanInv ==
  ran = (Opened(Done) \X expected)
          \cup (IF todo = {} THEN {} ELSE {i} \X (expected \ todo))

Asked == Len(args) > 0 /\ expected # {}

\* The command ends after the last artifact, or before the first.
ExitInv ==
  /\ i > 0 => Asked
  /\ exit # Running =>
       /\ todo = {}
       /\ IF Asked THEN i = Len(args) /\ (exit = 0 <=> globalOK)
                   ELSE i = 0 /\ exit = 1

IndInv ==
  /\ args \in Seq(Artifacts)
  /\ TypeOK /\ TallyInv /\ VerdictInv /\ RanInv /\ ExitInv

-----------------------------------------------------------------------------
(* Lemmas *)

\* The command line is a sequence of artifacts.
LEMMA ArgsSeq ==
  ASSUME args \in UNION {[1..n -> Artifacts] : n \in 0..MaxArgs}
  PROVE  args \in Seq(Artifacts)
<1>1. PICK n \in 0..MaxArgs : args \in [1..n -> Artifacts]
  OBVIOUS
<1> QED
  BY <1>1, PluginTestAssumption

\* An artifact that is not skipped is good exactly when it passes every
\* requested check (plugin.go:150-172).
LEMMA GoodIsPassing ==
  ASSUME NEW a \in Artifacts, ~Skips(a)
  PROVE  Good(a) <=> \A c \in expected : Passes(a, c)
BY DEF Artifacts, Skips, Good, Passes

\* The artifacts counted as bad are finitely many, and the next one adds one
\* or none to their number.
LEMMA BadGrows ==
  ASSUME NEW m \in Nat
  PROVE  /\ IsFiniteSet(Bad(m)) /\ Cardinality(Bad(m)) \in Nat
         /\ Bad(m + 1) = IF Good(args[m + 1]) THEN Bad(m) ELSE Bad(m) \cup {m + 1}
         /\ Cardinality(Bad(m + 1)) =
              Cardinality(Bad(m)) + (IF Good(args[m + 1]) THEN 0 ELSE 1)
<1>1. IsFiniteSet(1..m)
  BY FS_Interval
<1>2. IsFiniteSet(Bad(m)) /\ Cardinality(Bad(m)) \in Nat
  BY <1>1, FS_Subset, FS_CardinalityType DEF Bad
<1>3. Bad(m + 1) = IF Good(args[m + 1]) THEN Bad(m) ELSE Bad(m) \cup {m + 1}
  BY DEF Bad
<1>4. m + 1 \notin Bad(m)
  BY DEF Bad
<1>5. Cardinality(Bad(m) \cup {m + 1}) = Cardinality(Bad(m)) + 1
  BY <1>2, <1>4, FS_AddElement
<1> QED
  BY <1>2, <1>3, <1>5

\* No artifact is counted before the first.
LEMMA BadEmpty == Bad(0) = {} /\ Cardinality(Bad(0)) = 0
<1>1. Bad(0) = {}
  BY DEF Bad
<1> QED
  BY <1>1, FS_EmptySet

\* The next artifact joins those opened unless it is missing.
LEMMA OpenedGrows ==
  ASSUME NEW m \in Nat
  PROVE  Opened(m + 1) = IF Skips(args[m + 1]) THEN Opened(m) ELSE Opened(m) \cup {m + 1}
BY DEF Opened

-----------------------------------------------------------------------------
(* The inductive invariant *)

\* It holds before the first artifact.
LEMMA InitIndInv == Init => IndInv
<1> SUFFICES ASSUME Init PROVE IndInv
  OBVIOUS
<1> USE DEF Init
<1>1. args \in Seq(Artifacts) /\ Len(args) \in Nat
  BY ArgsSeq
<1>2. ok \in BOOLEAN /\ globalOK \in BOOLEAN
  BY Zenon
<1>3. TypeOK
  BY <1>1, <1>2 DEF TypeOK
<1>4. TallyInv /\ VerdictInv
  BY BadEmpty DEF TallyInv, VerdictInv, Done
<1>5. RanInv
  BY DEF RanInv, Done, Opened
<1>6. ExitInv
  BY <1>1 DEF ExitInv, Running
<1> QED
  BY <1>1, <1>3, <1>4, <1>5, <1>6 DEF IndInv

\* Every step of the command preserves it.
LEMMA NextIndInv == IndInv /\ [Next]_vars => IndInv'
<1> SUFFICES ASSUME IndInv, [Next]_vars PROVE IndInv'
  OBVIOUS
<1>0. /\ args \in Seq(Artifacts) /\ Len(args) \in Nat /\ i \in 0..Len(args) /\ i \in Nat
      /\ \A k \in 1..Len(args) : args[k] \in Artifacts
  BY DEF IndInv, TypeOK
<1>1. CASE Usage
  BY <1>0, <1>1
     DEF Usage, IndInv, TypeOK, TallyInv, VerdictInv, RanInv, ExitInv, Asked, Done,
         Bad, Good, Opened, Running
<1>2. CASE Open
  <2>1. /\ exit = Running /\ Asked /\ todo = {} /\ i < Len(args) /\ i' = i + 1
        /\ UNCHANGED <<args, expected, ran, exit>>
        /\ Done = i
    BY <1>2 DEF Open, Asked, Done
  <2>2. /\ \A m : Bad(m)' = Bad(m) /\ Opened(m)' = Opened(m)
        /\ \A a : Good(a)' = Good(a)
        /\ Asked' = Asked
    BY <2>1 DEF Bad, Good, Opened, Asked
  <2>3. CASE Skips(args[i + 1])
    <3>1. /\ failed' = failed + 1 /\ globalOK' = FALSE /\ todo' = {} /\ ok' = ok
          /\ Done' = i + 1 /\ ~Good(args[i + 1])
      BY <1>2, <2>1, <2>3 DEF Open, Done, Skips, Good
    <3>2. /\ Bad(i + 1) = Bad(i) \cup {i + 1} /\ Opened(i + 1) = Opened(i)
          /\ Cardinality(Bad(i + 1)) = Cardinality(Bad(i)) + 1
      BY <1>0, <2>3, <3>1, BadGrows, OpenedGrows
    <3>3. globalOK' \in BOOLEAN
      BY <3>1, Zenon
    <3>4. TypeOK'
      BY <1>0, <2>1, <3>1, <3>3 DEF IndInv, TypeOK
    <3>5. TallyInv'
      BY <1>0, <2>1, <2>2, <3>1, <3>2 DEF IndInv, TallyInv
    <3>6. VerdictInv' /\ RanInv'
      BY <2>1, <2>2, <3>1, <3>2 DEF IndInv, VerdictInv, RanInv
    <3>7. ExitInv'
      BY <2>1, <2>2, <3>1 DEF IndInv, ExitInv
    <3> QED
      BY <1>0, <2>1, <3>4, <3>5, <3>6, <3>7 DEF IndInv
  <2>4. CASE ~Skips(args[i + 1])
    <3>1. /\ todo' = expected /\ ok' = TRUE /\ failed' = failed /\ globalOK' = globalOK
          /\ Done' = i /\ expected # {}
      BY <1>0, <1>2, <2>1, <2>4 DEF Open, Done
    <3>2. ok' \in BOOLEAN
      BY <3>1, Zenon
    <3>3. TypeOK'
      BY <1>0, <2>1, <3>1, <3>2 DEF IndInv, TypeOK
    <3>4. TallyInv'
      BY <2>1, <2>2, <3>1 DEF IndInv, TallyInv
    <3>5. VerdictInv'
      BY <1>0, <2>1, <2>4, <3>1 DEF VerdictInv
    <3>6. RanInv'
      BY <2>1, <2>2, <3>1 DEF IndInv, RanInv
    <3>7. ExitInv'
      BY <2>1, <2>2, <3>1 DEF IndInv, ExitInv
    <3> QED
      BY <1>0, <2>1, <3>3, <3>4, <3>5, <3>6, <3>7 DEF IndInv
  <2> QED
    BY <2>3, <2>4
<1>3. ASSUME NEW c \in Checks, Check(c) PROVE IndInv'
  <2>1. /\ exit = Running /\ c \in todo /\ c \in expected /\ todo # {} /\ Done = i - 1
        /\ i > 0 /\ ~Skips(args[i]) /\ args[i] \in Artifacts
        /\ UNCHANGED <<args, expected, i, exit>> /\ ran' = ran \cup {<<i, c>>}
        /\ ok <=> \A d \in expected \ todo : Passes(args[i], d)
    BY <1>0, <1>3 DEF Check, IndInv, TypeOK, VerdictInv, Done
  <2>2. /\ \A m : Bad(m)' = Bad(m) /\ Opened(m)' = Opened(m)
        /\ Asked' = Asked
    BY <2>1 DEF Bad, Good, Opened, Asked
  <2>3. todo' = todo \ {c} /\ todo' \subseteq expected
    BY <1>3, <2>1 DEF Check, LastCheck, IndInv, TypeOK
  <2>4. (ok' <=> \A d \in expected \ todo' : Passes(args[i], d)) /\ ok' \in BOOLEAN
    <3>1. ok' = (Passes(args[i], c) /\ ok)
      BY <1>3 DEF Check, Verdict
    <3>2. ok' \in BOOLEAN
      BY <3>1, Zenon
    <3> QED
      BY <2>1, <2>3, <3>1, <3>2
  <2>5. /\ failed' = IF todo' = {} /\ ~ok' THEN failed + 1 ELSE failed
        /\ globalOK' = IF todo' = {} THEN globalOK /\ ok' ELSE globalOK
    BY <1>3, <2>3 DEF Check, LastCheck, CountsFailure, IndInv, TypeOK
  <2>6. globalOK' \in BOOLEAN
    BY <2>5, Zenon DEF IndInv, TypeOK
  <2>7. PICK m \in Nat : i = m + 1 /\ Done = m
    BY <1>0, <2>1
  <2>8. Opened(i) = Opened(m) \cup {i}
    BY <2>1, <2>7, OpenedGrows
  <2>9. CASE todo' = {}
    <3>1. Done' = i /\ (ok' <=> Good(args[i]))
      BY <2>1, <2>4, <2>9, GoodIsPassing DEF Done
    <3>2. /\ Bad(i) = IF ok' THEN Bad(m) ELSE Bad(m) \cup {i}
          /\ Cardinality(Bad(i)) = Cardinality(Bad(m)) + (IF ok' THEN 0 ELSE 1)
      BY <2>7, <3>1, BadGrows
    <3>3. failed \in 0..m /\ failed = Cardinality(Bad(m)) /\ (globalOK <=> Bad(m) = {})
      BY <2>7 DEF IndInv, TallyInv
    <3>4. /\ failed' \in 0..i /\ failed' = Cardinality(Bad(i))
          /\ globalOK' <=> Bad(i) = {}
      <4>1. CASE ok'
        <5>1. failed' = failed /\ globalOK' = globalOK
          BY <2>5, <2>9, <4>1 DEF IndInv, TypeOK
        <5> QED
          BY <2>7, <3>2, <3>3, <4>1, <5>1
      <4>2. CASE ~ok'
        <5>1. failed' = failed + 1 /\ ~globalOK'
          BY <2>5, <2>9, <4>2 DEF IndInv, TypeOK
        <5> QED
          BY <2>7, <3>2, <3>3, <4>2, <5>1
      <4> QED
        BY <4>1, <4>2
    <3>5. TallyInv'
      BY <2>1, <2>2, <3>1, <3>4 DEF TallyInv
    <3>6. ran' = Opened(i) \X expected
      BY <2>1, <2>3, <2>7, <2>8, <2>9 DEF IndInv, RanInv
    <3>7. VerdictInv' /\ RanInv'
      BY <2>1, <2>2, <2>9, <3>1, <3>6 DEF VerdictInv, RanInv
    <3>8. TypeOK'
      BY <1>0, <2>1, <2>3, <2>4, <2>6, <3>4 DEF IndInv, TypeOK
    <3>9. ExitInv'
      BY <2>1, <2>2 DEF IndInv, ExitInv
    <3> QED
      BY <1>0, <2>1, <3>5, <3>7, <3>8, <3>9 DEF IndInv
  <2>10. CASE todo' # {}
    <3>1. Done' = Done /\ failed' = failed /\ globalOK' = globalOK
      BY <2>1, <2>5, <2>10 DEF Done
    <3>2. TallyInv'
      BY <2>2, <3>1 DEF IndInv, TallyInv
    <3>3. VerdictInv'
      BY <2>1, <2>4 DEF VerdictInv, Passes
    <3>4. RanInv'
      BY <2>1, <2>2, <2>3, <2>10, <3>1 DEF IndInv, RanInv
    <3>5. TypeOK'
      BY <1>0, <2>1, <2>3, <2>4, <3>1 DEF IndInv, TypeOK
    <3>6. ExitInv'
      BY <2>1, <2>2 DEF IndInv, ExitInv
    <3> QED
      BY <1>0, <2>1, <3>2, <3>3, <3>4, <3>5, <3>6 DEF IndInv
  <2> QED
    BY <2>9, <2>10
<1>4. CASE Finish
  <2>1. /\ exit = Running /\ Asked /\ todo = {} /\ i = Len(args)
        /\ exit' = IF globalOK THEN 0 ELSE 1
        /\ UNCHANGED <<args, expected, i, todo, ok, failed, globalOK, ran>>
    BY <1>4 DEF Finish, Asked
  <2>2. TypeOK'
    BY <2>1 DEF IndInv, TypeOK
  <2>3. /\ \A m : Bad(m)' = Bad(m) /\ Opened(m)' = Opened(m)
        /\ Asked' = Asked /\ Done' = Done
    BY <2>1 DEF Bad, Good, Opened, Asked, Done
  <2>4. TallyInv' /\ VerdictInv' /\ RanInv'
    BY <2>1, <2>3 DEF IndInv, TallyInv, VerdictInv, RanInv
  <2>5. ExitInv'
    BY <2>1, <2>3 DEF IndInv, ExitInv, TypeOK
  <2> QED
    BY <1>0, <2>1, <2>2, <2>4, <2>5 DEF IndInv
<1>5. CASE Exited \/ UNCHANGED vars
  <2>1. UNCHANGED vars
    BY <1>5 DEF Exited
  <2>2. /\ \A m : Bad(m)' = Bad(m) /\ Opened(m)' = Opened(m)
        /\ Asked' = Asked /\ Done' = Done
    BY <2>1 DEF Bad, Good, Opened, Asked, Done, vars
  <2>3. TallyInv' /\ VerdictInv' /\ RanInv' /\ ExitInv'
    BY <2>1, <2>2 DEF IndInv, TallyInv, VerdictInv, RanInv, ExitInv, vars
  <2> QED
    BY <2>1, <2>3 DEF IndInv, TypeOK, vars
<1> QED
  BY <1>1, <1>2, <1>3, <1>4, <1>5 DEF Next

\* The invariant of the command holds throughout (plugin.go:111-189).
THEOREM Inductive == Spec => []IndInv
BY InitIndInv, NextIndInv, PTL DEF Spec

\* Every variable keeps its type, and no artifact is counted twice.
THEOREM TypeCorrect == Spec => []TypeOK
BY Inductive, PTL DEF IndInv

\* For every command line, the exit code and the number of failures reported
\* are those of the artifacts that do not pass (plugin.go:128-189).
THEOREM ExitCodeIsRight == Spec => []ExitTellsVerdict
<1>1. IndInv => ExitTellsVerdict
  <2> SUFFICES ASSUME IndInv, exit # Running
               PROVE  /\ (exit = 0) <=> Asked /\ Bad(Len(args)) = {}
                      /\ Asked => failed = Cardinality(Bad(Len(args)))
    BY DEF ExitTellsVerdict, Asked, Bad
  <2>1. todo = {} /\ Done = i
    BY DEF IndInv, ExitInv, Done
  <2>2. CASE Asked
    <3>1. i = Len(args) /\ (exit = 0 <=> globalOK)
      BY <2>2 DEF IndInv, ExitInv
    <3> QED
      BY <2>1, <2>2, <3>1 DEF IndInv, TallyInv
  <2>3. CASE ~Asked
    BY <2>3 DEF IndInv, ExitInv
  <2> QED
    BY <2>2, <2>3
<1> QED
  BY <1>1, Inductive, PTL

\* For every command line, every requested check runs on every artifact that
\* exists (plugin.go:158-172).
THEOREM EveryCheckRuns == Spec => []NothingSkipped
<1>1. IndInv => NothingSkipped
  <2> SUFFICES ASSUME IndInv, exit # Running, Len(args) > 0
               PROVE  ran = Opened(Len(args)) \X expected
    BY DEF NothingSkipped, Opened
  <2>1. todo = {} /\ Done = i /\ ran = Opened(i) \X expected
    BY DEF IndInv, ExitInv, RanInv, Done
  <2>2. expected # {} => i = Len(args)
    BY DEF IndInv, ExitInv, Asked
  <2> QED
    BY <2>1, <2>2
<1> QED
  BY <1>1, Inductive, PTL
=============================================================================
