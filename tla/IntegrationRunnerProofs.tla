----------------------- MODULE IntegrationRunnerProofs -----------------------
(***************************************************************************)
(* Proofs about the safety of IntegrationRunner, for every number of runs and  *)
(* every value of the two flags.                                             *)
(***************************************************************************)
EXTENDS IntegrationRunner, TLAPS

\* A run that has not begun has started nothing.
Untouched(n) ==
  proc[n] = "none" /\ srv[n] = "none" /\ kills[n] = 0 /\ result[n] = "none"

FutureInv ==
  \A n \in RunIds : n > run \/ (n = run /\ st = "new") => Untouched(n)

\* What the run in progress has started, at each point of NewIntegration.
PresentInv ==
  /\ st # "new" => run \in RunIds /\ proc[run] # "none"
  /\ st = "started" => srv[run] = "none"
  /\ st \in {"started", "poll", "pause", "sleep", "ready"} => kills[run] = 0
  /\ st = "closed" => kills[run] = 1 /\ ~Alive(run) /\ srv[run] = "closed"

\* A run that ended with a Runner was taken down, once however often Close was
\* called (integration.go:329-335): the safety part of ClosedIsFreed.
ClosedIsTakenDown ==
  \A n \in RunIds : n < run /\ result[n] = "ok" =>
    kills[n] = 1 /\ proc[n] \in {"dying", "dead"} /\ srv[n] = "closed"

\* The clock and the attempts at each point of waitForStartup: every attempt is
\* a second behind the one before at least, and each but the first was let in
\* before the deadline.
ClockInv ==
  /\ st \in {"new", "started"} => clock = 0 /\ wake = 0 /\ tries = 0
  /\ st \in {"poll", "pause"} => readyURL
  /\ st = "sleep" => ~readyURL /\ wake = startupWait /\ clock <= wake
  /\ st = "poll" => clock >= (tries - 1) * Second
  /\ st = "pause" => /\ clock <= wake /\ wake >= tries * Second
                     /\ (tries - 1) * Second < readyWait

IndInv ==
  /\ TypeOK /\ FutureInv /\ PresentInv /\ ClosedIsTakenDown /\ ClockInv
  /\ LeavesOnlyWhenNotReady /\ AttemptsBounded

-----------------------------------------------------------------------------
\* The waits are natural numbers, whatever the flags say
\* (integration.go:279-289).
LEMMA Waits ==
  /\ readyWait \in Nat /\ readyWait >= Second
  /\ startupWait \in Nat /\ startupWait > 0
  /\ Horizon = readyWait + startupWait + 2
  /\ Runs \in Nat
BY RunnerAssumption DEF readyWait, startupWait, Second, Horizon

\* The invariant holds before the first run.
LEMMA InitIndInv == Init => IndInv
<1> SUFFICES ASSUME Init PROVE IndInv
  OBVIOUS
<1> USE Waits, RunnerAssumption DEF Init, RunIds
<1>1. TypeOK
  BY DEF TypeOK, Second
<1>2. FutureInv /\ PresentInv /\ ClosedIsTakenDown /\ ClockInv /\ LeavesOnlyWhenNotReady
      /\ AttemptsBounded
  BY DEF FutureInv, Untouched, PresentInv, ClosedIsTakenDown, ClockInv,
         LeavesOnlyWhenNotReady, AttemptsBounded, Second
<1> QED
  BY <1>1, <1>2 DEF IndInv

\* The end of a run hands an untouched next run an unchanged past.
LEMMA RunEndsIndInv ==
  ASSUME IndInv, run \in RunIds, NEW res \in {"nostart", "specs", "notready", "ok"},
         RunEnds(res), readyURL' = readyURL, kills' = kills, srv' = srv,
         proc' \in [RunIds -> {"none", "starting", "bound", "dying", "dead"}],
         \A n \in RunIds : n # run => proc'[n] = proc[n],
         res = "ok" => /\ kills[run] = 1 /\ srv[run] = "closed"
                       /\ proc'[run] \in {"dying", "dead"},
         proc'[run] \in {"starting", "bound"} \/ srv[run] \in {"spawned", "listening"}
           => res = "notready"
  PROVE  IndInv'
<1> USE Waits DEF IndInv, TypeOK, RunIds, RunEnds, Second
<1>1. TypeOK'
  OBVIOUS
<1>2. FutureInv'
  BY DEF FutureInv, Untouched
<1>3. PresentInv' /\ ClockInv' /\ AttemptsBounded'
  BY DEF PresentInv, ClockInv, AttemptsBounded
<1>4. ClosedIsTakenDown'
  BY DEF ClosedIsTakenDown
<1>5. LeavesOnlyWhenNotReady'
  BY DEF LeavesOnlyWhenNotReady, Alive
<1> QED
  BY <1>1, <1>2, <1>3, <1>4, <1>5

\* Every step of the harness, the clock and the processes preserves it.
LEMMA NextIndInv == IndInv /\ [Next]_vars => IndInv'
<1> SUFFICES ASSUME IndInv, [Next]_vars PROVE IndInv'
  OBVIOUS
<1> USE Waits DEF RunIds
<1> USE DEF IndInv, TypeOK, FutureInv, Untouched, PresentInv, ClosedIsTakenDown, ClockInv,
        LeavesOnlyWhenNotReady, AttemptsBounded, InProgress, Alive, Second
<1>1. CASE StartCmd
  <2>1. CASE RunEnds("nostart") /\ UNCHANGED proc
    <3>1. proc'[run] = "none" /\ srv[run] = "none"
      BY <1>1, <2>1 DEF StartCmd
    <3> QED
      BY <1>1, <2>1, <3>1, RunEndsIndInv DEF StartCmd
  <2>2. CASE /\ proc' = [proc EXCEPT ![run] = "starting"]
             /\ st' = "started"
             /\ UNCHANGED <<run, clock, wake, tries, result>>
    BY <1>1, <2>2 DEF StartCmd
  <2> QED
    BY <1>1, <2>1, <2>2 DEF StartCmd
<1>2. CASE SpecsRefused
  <2>1. proc'[run] \notin {"starting", "bound"} /\ srv[run] = "none"
    BY <1>2 DEF SpecsRefused, Killed
  <2> QED
    BY <1>2, <2>1, RunEndsIndInv DEF SpecsRefused, Killed
<1>3. CASE SpawnBackend
  BY <1>3 DEF SpawnBackend
<1>4. CASE PollOK
  BY <1>4 DEF PollOK
<1>5. CASE PollAgain
  BY <1>5 DEF PollAgain, BeforeDeadline
<1>6. CASE PollGivesUp
  BY <1>6, RunEndsIndInv DEF PollGivesUp
<1>7. CASE WakeUp
  BY <1>7 DEF WakeUp
<1>8. CASE Tick
  BY <1>8 DEF Tick
<1>9. CASE Close
  <2>1. run \in RunIds /\ st \in {"ready", "closed"} /\ st' = "closed"
    BY <1>9 DEF Close
  <2>2. /\ kills'[run] = 1 /\ proc'[run] \in {"dying", "dead"} /\ srv'[run] = "closed"
        /\ kills' \in [RunIds -> 0..1]
        /\ proc' \in [RunIds -> {"none", "starting", "bound", "dying", "dead"}]
        /\ srv' \in [RunIds -> {"none", "spawned", "listening", "closed"}]
        /\ \A m \in RunIds \ {run} :
             kills'[m] = kills[m] /\ proc'[m] = proc[m] /\ srv'[m] = srv[m]
    <3>1. CASE st = "ready"
      <4>1. /\ kills' = [kills EXCEPT ![run] = 1]
            /\ proc' = [proc EXCEPT ![run] = Killed(proc[run])]
            /\ srv' = [srv EXCEPT ![run] = "closed"]
        BY <1>9, <2>1, <3>1 DEF Close, FirstClose, BackendClosed
      <4>2. Killed(proc[run]) \in {"dying", "dead"}
        BY <2>1, <3>1 DEF Killed
      <4> QED
        BY <2>1, <4>1, <4>2
    <3>2. CASE st = "closed"
      BY <1>9, <2>1, <3>2 DEF Close, FirstClose
    <3> QED
      BY <2>1, <3>1, <3>2
  <2>3. UNCHANGED <<readyURL, run, clock, wake, tries, result>>
    BY <1>9 DEF Close
  <2> QED
    BY <2>1, <2>2, <2>3
<1>10. CASE TestReturns
  <2>1. proc'[run] \in {"dying", "dead"} /\ kills[run] = 1 /\ srv[run] = "closed"
    BY <1>10 DEF TestReturns
  <2> QED
    BY <1>10, <2>1, RunEndsIndInv DEF TestReturns
<1>11. ASSUME NEW n \in RunIds, GatewayBinds(n) \/ GatewayDies(n) PROVE IndInv'
  <2>1. /\ proc[n] \in {"starting", "dying"} /\ proc'[n] \in {"bound", "dead"}
        /\ proc[n] = "dying" => proc'[n] = "dead"
        /\ proc' \in [RunIds -> {"none", "starting", "bound", "dying", "dead"}]
        /\ \A m \in RunIds \ {n} : proc'[m] = proc[m]
        /\ UNCHANGED <<readyURL, run, st, clock, wake, tries, result, kills, srv>>
    BY <1>11 DEF GatewayBinds, GatewayDies
  <2> QED
    BY <2>1
<1>12. ASSUME NEW n \in RunIds, BackendListens(n) PROVE IndInv'
  BY <1>12 DEF BackendListens
<1>13. CASE GetTakesTime
  BY <1>13 DEF GetTakesTime
<1>14. CASE Over \/ UNCHANGED vars
  <2>1. UNCHANGED <<readyURL, run, st, clock, wake, tries, result, kills, proc, srv>>
    BY <1>14 DEF Over, vars
  <2>2. TypeOK' /\ FutureInv'
    BY <2>1
  <2>3. PresentInv' /\ ClosedIsTakenDown' /\ LeavesOnlyWhenNotReady'
    BY <2>1
  <2>4. ClockInv' /\ AttemptsBounded'
    BY <2>1
  <2> QED
    BY <2>2, <2>3, <2>4
<1> QED
  BY <1>1, <1>2, <1>3, <1>4, <1>5, <1>6, <1>7, <1>8, <1>9, <1>10, <1>11, <1>12, <1>13, <1>14
     DEF Next, Harness, AttemptEnds, Environment

\* The invariant of the harness holds throughout (integration.go:205-335).
THEOREM Inductive == Spec => []IndInv
BY InitIndInv, NextIndInv, PTL DEF Spec

\* Every piece of the harness' state keeps its type.
THEOREM TypeCorrect == Spec => []TypeOK
BY Inductive, PTL DEF IndInv

\* Of any number of runs, only those that gave up on the ready URL leave
\* something behind (integration.go:224-272, 329-335).
THEOREM LeftoversExplained == Spec => []LeavesOnlyWhenNotReady
BY Inductive, PTL DEF IndInv

\* However long the attempts take, the wait makes no more of them than its length
\* allows, for every value of the flags (integration.go:290-300).
THEOREM AttemptsAreBounded == Spec => []AttemptsBounded
BY Inductive, PTL DEF IndInv

\* Close kills the gateway and closes the backend once, however often it is
\* called (integration.go:329-335).
THEOREM ClosedOnce == Spec => []ClosedIsTakenDown
BY Inductive, PTL DEF IndInv
=============================================================================
