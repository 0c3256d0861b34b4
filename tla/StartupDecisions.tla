-------------------------- MODULE StartupDecisions --------------------------
(***************************************************************************)
(* What the integration harness hands to the gateway process it starts and    *)
(* what the process makes of it: the environment that getEnviron of            *)
(* tests/integration.go puts together, and whether startReporter of executor.go *)
(* reports usage.                                                           *)
(***************************************************************************)
EXTENDS Naturals, Functions

CONSTANTS Values,       \* values of USAGE_DISABLE in the harness' environment
          MaxPatterns   \* bound: patterns in the -pucora_envar_pattern flag

\* The kinds of pattern: "empty" and "all" match every variable, "usage" and
\* "home" the variable they are named for, "invalid" does not compile.
Patterns == {"empty", "all", "usage", "home", "invalid"}

\* Environments are functions from the names of the variables they hold.
Variables == {"HOME", "USAGE_DISABLE"}

\* A Boolean of the telemetry/usage block: not there (or of another type), or set.
Flags == {"absent", "true", "false"}

VARIABLES
  host,     \* os.Environ() of the harness
  flag,     \* the pattern flag, split at its commas
  usage,    \* the telemetry/usage block, and the level of the configuration it is at
  st,       \* how far the start has come
  env,      \* the environment of the gateway process
  reporter  \* what startReporter decided

inputs == <<host, flag, usage>>

vars == <<host, flag, usage, st, env, reporter>>

\* strings.Split yields at least one element: an empty flag is the flag with
\* one empty pattern.
Init ==
  /\ host \in [HOME: {"dir"}] \cup [HOME: {"dir"}, USAGE_DISABLE: Values]
  /\ flag \in UNION {[1..n -> Patterns] : n \in 1..MaxPatterns}
  /\ usage \in [level: {"none", "service", "endpoint"}, map: BOOLEAN,
                enabled: Flags, disabled: Flags]
  /\ usage.level = "none" => ~usage.map
  /\ ~usage.map => usage.enabled = "absent" /\ usage.disabled = "absent"
  /\ st = "build" /\ env = [n \in {} |-> ""] /\ reporter = "none"

-----------------------------------------------------------------------------
(* The harness *)

\* regexp: a pattern that compiles, against a variable.
MatchString(p, n) ==
  \/ p \in {"empty", "all"}
  \/ p = "usage" /\ n = "USAGE_DISABLE"
  \/ p = "home" /\ n = "HOME"

\* The variables of the harness that a pattern matches; patterns that do not
\* compile are skipped.
Passed == {n \in DOMAIN host : \E p \in Range(flag) : MatchString(p, n)}

\* USAGE_DISABLE comes first in the list, the variables that are passed after it,
\* and os/exec keeps the last value of a variable that is given twice.
getEnviron ==
  [n \in {"USAGE_DISABLE"} \cup Passed |-> IF n \in Passed THEN host[n] ELSE "1"]

StartCmd ==
  /\ st = "build"
  /\ env' = getEnviron
  /\ st' = "running"
  /\ UNCHANGED <<inputs, reporter>>

\* os.Getenv of the started process; a variable that is not there is empty.
Getenv(name) == IF name \in DOMAIN env THEN env[name] ELSE ""

-----------------------------------------------------------------------------
(* The gateway process *)

\* Only the service level is looked at, and only an object there.
usageReportingDisabled ==
  \/ Getenv("USAGE_DISABLE") \in {"1", "true", "TRUE"}
  \/ /\ usage.level = "service" /\ usage.map
     /\ usage.enabled = "false" \/ usage.disabled = "true"

\* Without a hash of the configuration there is no report either.
startReporter ==
  /\ st = "running"
  /\ \E hashed \in BOOLEAN :
       reporter' = IF ~usageReportingDisabled /\ hashed THEN "reports" ELSE "quiet"
  /\ st' = "decided"
  /\ UNCHANGED <<inputs, env>>

Decided == st = "decided" /\ UNCHANGED vars

Next == StartCmd \/ startReporter \/ Decided

Spec == Init /\ [][Next]_vars

-----------------------------------------------------------------------------
(* Properties *)

\* The values each piece of the state can take.
TypeOK ==
  /\ st \in {"build", "running", "decided"}
  /\ DOMAIN env \subseteq Variables
  /\ env \in [DOMAIN env -> Values \cup {"dir", "1"}]
  /\ reporter \in {"none", "reports", "quiet"}

\* The help text of -pucora_envar_pattern (integration.go:45) says that passing
\* everything takes the pattern ".*", so that with the flag at its default the
\* gateway under test has the harness' USAGE_DISABLE=1; docs/websockets.md:42
\* opts out in the extra_config of an endpoint.  With the default flag and a
\* configuration that opts out as it does, at either level, nothing is reported.
OptOutHonoured ==
  flag = <<"empty">> /\ usage.enabled = "false" => reporter # "reports"

\* The configuration opts out in one of the two ways.
OptsOut == usage.enabled = "false" \/ usage.disabled = "true"

\* What the code does: a gateway under test reports its usage only if the
\* environment of the harness has a value of its own for USAGE_DISABLE, a pattern
\* (the empty one of the default flag too) lets that value through, and the
\* configuration does not opt out at the service level
\* (integration.go:564-587, executor.go:455-472).
QuietUnderHarness ==
  reporter = "reports" =>
    /\ "USAGE_DISABLE" \in DOMAIN host
    /\ host["USAGE_DISABLE"] \notin {"1", "true", "TRUE"}
    /\ \E p \in Range(flag) : p \notin {"home", "invalid"}
    /\ usage.level = "service" => ~OptsOut
=============================================================================
