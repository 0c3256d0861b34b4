------------------------- MODULE HarnessSessionProofs -------------------------
(***************************************************************************)
(* Proofs about HarnessSession, for every set of cases and every length of a  *)
(* session.                                                                 *)
(***************************************************************************)
EXTENDS HarnessSession, TLAPS

\* A case is being checked.
Checking == {"request", "status", "headers", "body", "content", "verdict"}

\* What Check turns down: a case that is not satisfied, unless it only missed
\* its error.
TurnedDown(c) == ~Satisfied(c) /\ ~ErrorMissed(c)

\* The books of the session: the counter of main is behind the history by the
\* missed errors, and by the case in hand if Check will turn it down; the process
\* ends in one of its ways.
Accounts ==
  /\ st \in {"begin", "next", "closed"} => errors + missed = wrong
  /\ st \in Checking => errors + missed + One(TurnedDown(case)) = wrong
  /\ exit = "no" <=> st # "over"
  /\ exit \in {"ok", "failed"} => ((exit = "ok") <=> (wrong = missed))

\* What assertResponse has reported, and what it knows of the case, at each
\* of its points.
StatusReport == IF case.answer.status THEN {} ELSE {"status"}

HeaderReport == case.answer.headers \cap {"differs", "missing"}

Report ==
  /\ st \in {"request", "status"} => msgs = {}
  /\ st = "headers" => msgs = StatusReport
  /\ st \in {"body", "content"} => msgs = StatusReport \cup HeaderReport /\ ~Panics
  /\ st \in {"status", "headers", "body", "content"} => case.do = "answer"
  /\ st = "content" => case.answer.body # "broken"

\* The early returns of Check, taken together, decide the case.
Decided == st = "verdict" => (failed <=> TurnedDown(case))

\* Who owns the answer's body and the gateway at each point.
Resources ==
  /\ st \in {"begin", "request", "content"} => ~open
  /\ st \in {"begin", "closed"} => gateway = "down"

IndInv ==
  /\ TypeOK /\ Accounts /\ Report /\ Decided /\ Resources
  /\ NothingHidden /\ GatewayTakenDown /\ BodiesClosed

-----------------------------------------------------------------------------
\* The case in hand is one of the cases assumed.
LEMMA CaseType ==
  ASSUME NEW c \in Cases
  PROVE  /\ c.do \in {"norequest", "E", "other", "answer"} /\ c.err \in {"none", "E"}
         /\ c.answer.status \in BOOLEAN /\ c.answer.headers \subseteq Headers
         /\ c.answer.body \in {"broken", "empty", "text", "json"}
         /\ c.answer.want \in {"nothing", "body", "schema", "both", "badschema"}
         /\ c.answer.match \in BOOLEAN /\ c.answer.valid \in BOOLEAN
BY CasesAssumption DEF Answers

\* One counts a fact that holds.
LEMMA Counting ==
  ASSUME NEW b
  PROVE  One(b) \in {0, 1} /\ (b => One(b) = 1) /\ (~b => One(b) = 0)
BY DEF One

\* A case adds one to each history or nothing, and what it adds to the first
\* beyond the second is what Check will turn down.
LEMMA CaseCounts ==
  ASSUME NEW c \in Cases
  PROVE  One(~Satisfied(c)) = One(ErrorMissed(c)) + One(TurnedDown(c))
BY CaseType DEF One, Satisfied, ErrorMissed, TurnedDown

\* An error is turned down unless it is the expected one, an answer unless it is
\* as described: an error that was expected plays no part in it.
LEMMA TurnedDownIf ==
  ASSUME NEW c \in Cases
  PROVE  TurnedDown(c) <=> IF c.do = "answer" THEN ~AsDescribed(c.answer) ELSE c.do # c.err
BY CaseType DEF TurnedDown, Satisfied, ErrorMissed

\* An answer that was read is as described exactly when nothing is reported
\* about its status and headers and its content is the wanted one.
LEMMA DescribedByReport ==
  ASSUME NEW c \in Cases, c.do = "answer", c.answer.body # "broken",
         "empty" \notin c.answer.headers
  PROVE  TurnedDown(c) <=>
           ~ /\ c.answer.status /\ c.answer.headers \cap {"differs", "missing"} = {}
             /\ ContentAsWanted(c.answer)
BY CaseType, TurnedDownIf DEF AsDescribed, Headers

-----------------------------------------------------------------------------
\* The invariant holds before the gateway is started.
LEMMA InitIndInv == Init => IndInv
<1> SUFFICES ASSUME Init PROVE IndInv
  OBVIOUS
<1>1. TypeOK
  <2>1. failed \in BOOLEAN /\ open \in BOOLEAN
    BY Zenon DEF Init
  <2>2. MaxCases \in Nat
    BY CasesAssumption
  <2> QED
    BY <2>1, <2>2 DEF Init, TypeOK
<1>2. Accounts /\ Report /\ Decided /\ Resources
  BY DEF Init, Accounts, Checking, Report, Decided, Resources
<1>3. NothingHidden /\ GatewayTakenDown /\ BodiesClosed
  BY DEF Init, NothingHidden, GatewayTakenDown, BodiesClosed
<1> QED
  BY <1>1, <1>2, <1>3 DEF IndInv

\* The type of the session's variables is preserved, given the accounts: the
\* counter cannot pass the number of cases.
LEMMA NextIndInv == IndInv /\ [Next]_vars => IndInv'
<1> SUFFICES ASSUME IndInv, [Next]_vars PROVE IndInv'
  OBVIOUS
<1> USE DEF IndInv, TypeOK, Accounts, Checking, Report, Decided, Resources,
        NothingHidden, GatewayTakenDown, BodiesClosed
<1>0. case \in Cases /\ MaxCases \in Nat
  BY CasesAssumption
<1>1. CASE NextCase
  <2>0. failed' \in BOOLEAN /\ open' \in BOOLEAN
    BY <1>1, Zenon DEF NextCase
  <2>a. One(~Satisfied(case')) = One(ErrorMissed(case')) + One(TurnedDown(case'))
    BY <1>1, CaseCounts DEF NextCase
  <2>b. /\ One(~Satisfied(case')) \in {0, 1} /\ One(ErrorMissed(case')) \in {0, 1}
        /\ One(TurnedDown(case')) \in {0, 1}
    BY Counting
  <2>1. TypeOK'
    BY <1>0, <1>1, <2>0, <2>b DEF NextCase
  <2>2. Accounts'
    BY <1>0, <1>1, <2>a, <2>b DEF NextCase
  <2>3. Report' /\ Decided' /\ Resources'
    BY <1>1 DEF NextCase
  <2>4. NothingHidden' /\ GatewayTakenDown' /\ BodiesClosed'
    BY <1>1 DEF NextCase
  <2> QED
    BY <2>1, <2>2, <2>3, <2>4
<1>2. CASE Do
  BY <1>0, <1>2, CaseType, TurnedDownIf DEF Do, Returns, Unexpected, newRequestFails
<1>3. CASE AssertStatus
  BY <1>0, <1>3, CaseType DEF AssertStatus, StatusReport, Panics
<1>4. CASE AssertHeaders
  BY <1>0, <1>4, CaseType DEF AssertHeaders, Panics, StatusReport, HeaderReport
<1>5. CASE ReadBody
  <2>1. case.answer.body = "broken" => TurnedDown(case)
    BY <1>0, <1>5, TurnedDownIf DEF ReadBody, AsDescribed
  <2> QED
    BY <1>0, <1>5, <2>1, CaseType
       DEF ReadBody, Returns, OpenAfterRead, Panics, StatusReport, HeaderReport
<1>6. CASE AssertSchema
  <2>1. TurnedDown(case) <=>
          ~(msgs = {} /\ case.answer.want # "badschema" /\ case.answer.valid)
    BY <1>0, <1>6, DescribedByReport
       DEF AssertSchema, Panics, StatusReport, HeaderReport, ContentAsWanted
  <2>2. ContentAsWanted(case.answer) <=>
          case.answer.want # "badschema" /\ case.answer.valid
    BY <1>6 DEF AssertSchema, ContentAsWanted
  <2> QED
    BY <1>0, <1>6, <2>1, <2>2, CaseType
       DEF AssertSchema, Returns, Reported, StatusReport, HeaderReport
<1>7. CASE AssertBody
  <2>1. ContentAsWanted(case.answer) <=>
          case.answer.want = "nothing" \/ case.answer.match
    BY <1>7 DEF AssertBody, ContentAsWanted
  <2>2. TurnedDown(case) <=>
          ~(msgs = {} /\ (case.answer.want = "nothing" \/ case.answer.match))
    BY <1>0, <1>7, <2>1, DescribedByReport
       DEF AssertBody, Panics, StatusReport, HeaderReport
  <2> QED
    BY <1>0, <1>7, <2>1, <2>2, CaseType
       DEF AssertBody, Returns, Reported, StatusReport, HeaderReport
<1>8. CASE Verdict
  <2>1. One(failed) = One(TurnedDown(case)) /\ One(failed) \in {0, 1}
    BY <1>8, Counting DEF Verdict
  <2> QED
    BY <1>0, <1>8, <2>1 DEF Verdict, Count
<1>9. CASE Close
  BY <1>0, <1>9 DEF Close
<1>10. CASE Exit
  BY <1>0, <1>10 DEF Exit
<1>11. CASE Over \/ UNCHANGED vars
  <2>1. UNCHANGED vars
    BY <1>11 DEF Over
  <2>2. TypeOK' /\ Accounts' /\ Decided' /\ Resources'
    BY <2>1 DEF vars
  <2>3. Report' /\ NothingHidden' /\ GatewayTakenDown' /\ BodiesClosed'
    BY <2>1 DEF vars, Panics, StatusReport, HeaderReport
  <2> QED
    BY <2>2, <2>3
<1>12. CASE NewIntegration
  <2>1. /\ st = "begin" /\ st' \in {"next", "over"} /\ gateway' \in {"up", "down"}
        /\ UNCHANGED <<n, case, msgs, failed, open, errors, wrong, missed>>
    BY <1>12 DEF NewIntegration
  <2>2. IF st' = "next" THEN exit' = "no" ELSE exit' \in {"nostart", "specs", "notready"}
    BY <1>12 DEF NewIntegration
  <2>3. st' = "over" /\ gateway' = "up" => exit' = "notready"
    BY <1>12 DEF NewIntegration
  <2>4. TypeOK' /\ Accounts'
    BY <1>0, <2>1, <2>2
  <2>5. Report' /\ Decided' /\ Resources'
    BY <2>1, <2>2
  <2>6. NothingHidden' /\ GatewayTakenDown' /\ BodiesClosed'
    BY <2>1, <2>3
  <2> QED
    BY <2>4, <2>5, <2>6
<1> QED
  BY <1>1, <1>2, <1>3, <1>4, <1>5, <1>6, <1>7, <1>8, <1>9, <1>10, <1>11, <1>12 DEF Next

\* The invariant of the session holds throughout (cmd/pucora-integration/main.go:21-39).
THEOREM Inductive == Spec => []IndInv
BY InitIndInv, NextIndInv, PTL DEF Spec

\* Every variable of the session keeps its type, and no case fails twice.
THEOREM TypeCorrect == Spec => []TypeOK
BY Inductive, PTL DEF IndInv

\* Whatever the cases and however many, the counter and the exit code of main
\* are wrong by the missed errors and by nothing else
\* (integration.go:338-465, cmd/pucora-integration/main.go:21-39).
THEOREM VerdictIsExplained == Spec => []OnlyErrorsMissed
<1>1. IndInv => OnlyErrorsMissed
  BY DEF IndInv, Accounts, OnlyErrorsMissed
<1> QED
  BY <1>1, Inductive, PTL

\* No spec can miss its error, for instance because a case that expects an error
\* leaves the status code at 0.
NoErrorToMiss == \A c \in Cases : ~ErrorMissed(c)

\* Then none is missed.
NoneMissed == NoErrorToMiss => missed = 0

\* Where no spec can miss its error, no session counts one as missed.
LEMMA NoneIsMissed == Spec => []NoneMissed
<1>1. Init => NoneMissed
  BY DEF Init, NoneMissed
<1>2. NoneMissed /\ [Next]_vars => NoneMissed'
  <2> SUFFICES ASSUME missed = 0, NoErrorToMiss, [Next]_vars PROVE missed' = 0
    BY DEF NoneMissed, NoErrorToMiss
  <2>1. CASE NextCase
    <3>1. case' \in Cases /\ missed' = missed + One(ErrorMissed(case'))
      BY <2>1 DEF NextCase
    <3>2. One(ErrorMissed(case')) = 0
      BY <3>1, Counting DEF NoErrorToMiss
    <3> QED
      BY <3>1, <3>2
  <2>2. CASE ~NextCase
    BY <2>2 DEF Next, NewIntegration, Do, AssertStatus, AssertHeaders, ReadBody,
                AssertSchema, AssertBody, Verdict, Close, Exit, Over, vars
  <2> QED
    BY <2>1, <2>2
<1> QED
  BY <1>1, <1>2, PTL DEF Spec

\* On specs that cannot miss an error the harness is exact: it counts the cases
\* that are not satisfied and no other (integration.go:338-465).
THEOREM VerdictIsRight == Spec => [](NoErrorToMiss => CountsUnsatisfied)
<1>1. IndInv /\ NoneMissed => (NoErrorToMiss => CountsUnsatisfied)
  BY DEF IndInv, TypeOK, Accounts, NoneMissed, CountsUnsatisfied
<1> QED
  BY <1>1, Inductive, NoneIsMissed, PTL

\* Of an answer that can be read, no return of assertResponse hides a mismatch
\* met before it; the return for a body that cannot be read does, and is not
\* covered (integration.go:363-398, 402-464).
THEOREM ReportIsComplete == Spec => []NothingHidden
BY Inductive, PTL DEF IndInv

\* A session ends with the gateway running only if it was not ready in time or
\* a check panicked (cmd/pucora-integration/main.go:14-19, 32).
THEOREM GatewayIsTakenDown == Spec => []GatewayTakenDown
BY Inductive, PTL DEF IndInv

\* Only a body that cannot be read stays open (integration.go:398-402).
THEOREM BodiesAreClosed == Spec => []BodiesClosed
BY Inductive, PTL DEF IndInv
=============================================================================
