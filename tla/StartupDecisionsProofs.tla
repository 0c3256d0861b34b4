------------------------ MODULE StartupDecisionsProofs ------------------------
(***************************************************************************)
(* Proofs about the safety of StartupDecisions, for every set of values the    *)
(* harness may find in USAGE_DISABLE and every number of patterns.             *)
(***************************************************************************)
EXTENDS StartupDecisions, TLAPS

-----------------------------------------------------------------------------
(* The inductive invariant *)

\* What the harness and the configuration start with, which no step changes.
InputsInv ==
  /\ DOMAIN host \subseteq Variables
  /\ \A n \in DOMAIN host : host[n] \in Values \cup {"dir"}
  /\ ~usage.map => usage.enabled = "absent" /\ usage.disabled = "absent"

\* A process that was started has the environment the harness put together.
EnvInv == st # "build" => env = getEnviron

\* The reporter decides last.
ReporterInv == st # "decided" => reporter = "none"

IndInv ==
  TypeOK /\ InputsInv /\ EnvInv /\ ReporterInv /\ QuietUnderHarness

-----------------------------------------------------------------------------
(* Induction *)

\* Every environment the harness may run in satisfies the invariant.
LEMMA InitIndInv == Init => IndInv
<1> SUFFICES ASSUME Init PROVE IndInv
  OBVIOUS
<1>1. InputsInv
  <2>1. CASE host \in [HOME: {"dir"}]
    BY <2>1 DEF Init, InputsInv, Variables
  <2>2. CASE host \in [HOME: {"dir"}, USAGE_DISABLE: Values]
    BY <2>2 DEF Init, InputsInv, Variables
  <2> QED
    BY <2>1, <2>2 DEF Init
<1>2. TypeOK
  BY DEF Init, TypeOK
<1> QED
  BY <1>1, <1>2 DEF Init, IndInv, EnvInv, ReporterInv, QuietUnderHarness

\* Every variable that getEnviron hands over is one the harness sets or has.
LEMMA EnvironType ==
  ASSUME InputsInv
  PROVE  /\ DOMAIN getEnviron \subseteq Variables
         /\ getEnviron \in [DOMAIN getEnviron -> Values \cup {"dir", "1"}]
BY DEF InputsInv, getEnviron, Passed, Variables

\* Putting the environment together.
LEMMA StartCmdIndInv == IndInv /\ StartCmd => IndInv'
<1> SUFFICES ASSUME IndInv, StartCmd PROVE IndInv'
  OBVIOUS
<1>1. /\ st' = "running" /\ env' = getEnviron /\ reporter' = "none"
      /\ UNCHANGED <<host, flag, usage, reporter>>
  BY DEF StartCmd, inputs, IndInv, ReporterInv
<1>2. getEnviron' = getEnviron
  BY <1>1 DEF getEnviron, Passed
<1>3. TypeOK'
  BY <1>1, EnvironType DEF IndInv, TypeOK
<1>4. InputsInv' /\ EnvInv' /\ ReporterInv'
  BY <1>1, <1>2 DEF IndInv, InputsInv, EnvInv, ReporterInv
<1>5. QuietUnderHarness'
  BY <1>1 DEF QuietUnderHarness
<1> QED
  BY <1>3, <1>4, <1>5 DEF IndInv

\* Deciding about the report: a value that does not disable it can only be one
\* that the harness passed on.
LEMMA startReporterIndInv == IndInv /\ startReporter => IndInv'
<1> SUFFICES ASSUME IndInv, startReporter PROVE IndInv'
  OBVIOUS
<1>1. /\ st = "running" /\ st' = "decided"
      /\ UNCHANGED <<host, flag, usage, env>>
  BY DEF startReporter, inputs
<1>2. reporter' \in {"reports", "quiet"} /\ (reporter' = "reports" => ~usageReportingDisabled)
  BY DEF startReporter
<1>3. env = getEnviron
  BY <1>1 DEF IndInv, EnvInv
<1>4. getEnviron' = getEnviron
  BY <1>1 DEF getEnviron, Passed
<1>5. TypeOK' /\ InputsInv' /\ EnvInv' /\ ReporterInv'
  BY <1>1, <1>2, <1>3, <1>4
  DEF IndInv, TypeOK, InputsInv, EnvInv, ReporterInv
<1>6. QuietUnderHarness'
  <2> SUFFICES ASSUME reporter' = "reports"
               PROVE  /\ "USAGE_DISABLE" \in DOMAIN host
                      /\ host["USAGE_DISABLE"] \notin {"1", "true", "TRUE"}
                      /\ \E p \in Range(flag) : p \notin {"home", "invalid"}
                      /\ usage.level = "service" => ~OptsOut
    BY <1>1 DEF QuietUnderHarness, OptsOut
  <2>1. getEnviron["USAGE_DISABLE"] \notin {"1", "true", "TRUE"}
    BY <1>2, <1>3 DEF usageReportingDisabled, Getenv, getEnviron
  <2>2. "USAGE_DISABLE" \in Passed /\ host["USAGE_DISABLE"] \notin {"1", "true", "TRUE"}
    BY <2>1 DEF getEnviron
  <2>3. PICK p \in Range(flag) : MatchString(p, "USAGE_DISABLE")
    BY <2>2 DEF Passed
  <2>4. p \notin {"home", "invalid"}
    BY <2>3 DEF MatchString
  <2>5. usage.level = "service" => ~OptsOut
    BY <1>2 DEF usageReportingDisabled, OptsOut, IndInv, InputsInv
  <2> QED
    BY <2>2, <2>4, <2>5 DEF Passed
<1> QED
  BY <1>5, <1>6 DEF IndInv

\* Every step of a start keeps the invariant.
LEMMA NextIndInv == IndInv /\ [Next]_vars => IndInv'
<1> SUFFICES ASSUME IndInv, [Next]_vars PROVE IndInv'
  OBVIOUS
<1>1. CASE StartCmd
  BY <1>1, StartCmdIndInv
<1>2. CASE startReporter
  BY <1>2, startReporterIndInv
<1>3. CASE UNCHANGED vars
  BY <1>3 DEF vars, IndInv, TypeOK, InputsInv, EnvInv, ReporterInv, QuietUnderHarness,
              OptsOut, getEnviron, Passed
<1> QED
  BY <1>1, <1>2, <1>3 DEF Next, Decided

-----------------------------------------------------------------------------
(* Theorems *)

\* The invariant is inductive: it holds in every reachable state.
THEOREM Inductive == Spec => []IndInv
BY InitIndInv, NextIndInv, PTL DEF Spec

\* Every piece of the state keeps to its values.
THEOREM TypeCorrect == Spec => []TypeOK
<1>1. IndInv => TypeOK
  BY DEF IndInv
<1> QED
  BY <1>1, Inductive, PTL

\* Whatever the environment, the patterns and the configuration, a gateway under
\* test reports its usage only if the harness' own environment makes it
\* (integration.go:564-587, executor.go:455-472).
THEOREM QuietByDefault == Spec => []QuietUnderHarness
<1>1. IndInv => QuietUnderHarness
  BY DEF IndInv
<1> QED
  BY <1>1, Inductive, PTL
==============================================================================
