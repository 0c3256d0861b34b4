---------------------------- MODULE HarnessSession ----------------------------
(***************************************************************************)
(* A session of the integration command: main of cmd/pucora-integration       *)
(* starts a gateway with NewIntegration, checks one test case after the other   *)
(* with Runner.Check, closes the Runner and exits.  Check sends a request and assertResponse compares what came      *)
(* back with what the case expects, collecting messages and returning early     *)
(* from several places.                                                      *)
(*                                                                         *)
(* A case is abstracted to how the expectation and the answer relate; the      *)
(* next one is chosen when the previous one is over, since the specs are read   *)
(* into a map and come in no particular order.                                *)
(***************************************************************************)
EXTENDS Naturals, FiniteSets

CONSTANTS Cases,      \* the test cases a session may meet
          MaxCases    \* bound: test cases of a session

\* How an expected header compares with the answer: present and equal, present
\* with other values, absent and wanted, absent with [""] expected, and absent
\* with an empty list expected.
Headers == {"same", "differs", "missing", "optional", "empty"}

\* body: reading it fails, it is empty, it is not JSON, or it is JSON;
\* want: what the case says of the content; match: the content is the expected
\* body; valid: it satisfies the expected schema.
Answers == [status: BOOLEAN, headers: SUBSET Headers,
            body: {"broken", "empty", "text", "json"},
            want: {"nothing", "body", "schema", "both", "badschema"},
            match: BOOLEAN, valid: BOOLEAN]

\* do: the request cannot be built, the client fails with the error E or with
\* another one, or there is an answer; err: the error the case expects.  A case
\* may expect an error and describe an answer as well.
ASSUME CasesAssumption ==
  /\ MaxCases \in Nat
  /\ \A c \in Cases :
       /\ c \in [do: {"norequest", "E", "other", "answer"}, err: {"none", "E"},
                 answer: Answers]
       /\ c.answer.valid => c.answer.body = "json"

VARIABLES
  n,        \* cases taken so far
  case,     \* the case being checked, or the last one
  st,       \* control point of the session
  msgs,     \* the problems reported for the case
  failed,   \* Check returned an error
  open,     \* the body of the answer is not closed
  errors,   \* the counter of main
  wrong,    \* history: cases so far that the gateway did not satisfy
  missed,   \* history: those among them whose error did not happen while the
            \* answer is the one they describe
  gateway,  \* the process under test
  exit      \* how the process of the session ended; "no" while it runs

vars == <<n, case, st, msgs, failed, open, errors, wrong, missed, gateway, exit>>

Init ==
  /\ n = 0 /\ case \in Cases /\ st = "begin"
  /\ msgs = {} /\ failed = FALSE /\ open = FALSE
  /\ errors = 0 /\ wrong = 0 /\ missed = 0
  /\ gateway = "down" /\ exit = "no"

-----------------------------------------------------------------------------
(* The start and the loop of main *)

\* NewIntegration as main sees it: the gateway does not start, is killed because
\* the specs are not usable, is left running because it was not ready in time,
\* or is ready.
NewIntegration ==
  /\ st = "begin"
  /\ \E res \in {"nostart", "specs", "notready", "ready"} :
       /\ gateway' = IF res \in {"notready", "ready"} THEN "up" ELSE "down"
       /\ IF res = "ready" THEN st' = "next" /\ UNCHANGED exit
                           ELSE st' = "over" /\ exit' = res
  /\ UNCHANGED <<n, case, msgs, failed, open, errors, wrong, missed>>

\* The content of an answer is what the case wants; a schema is used over the
\* body.
ContentAsWanted(a) ==
  \/ a.want = "nothing"
  \/ a.want = "body" /\ a.match
  \/ a.want \in {"schema", "both"} /\ a.valid

\* The answer is the one the case describes: it can be read and has the expected
\* status, headers and content.
AsDescribed(a) ==
  /\ a.status /\ a.headers \subseteq {"same", "optional"}
  /\ a.body # "broken" /\ ContentAsWanted(a)

\* What it means for the gateway to satisfy a case: the expected error and no
\* other, or, where none is expected, the answer described.
Satisfied(c) ==
  IF c.do = "answer" THEN c.err = "none" /\ AsDescribed(c.answer) ELSE c.do = c.err

\* An error was expected and did not happen; the answer is as described.
ErrorMissed(c) == c.do = "answer" /\ c.err # "none" /\ AsDescribed(c.answer)

One(b) == IF b THEN 1 ELSE 0

NextCase ==
  /\ st = "next" /\ n < MaxCases
  /\ case' \in Cases
  /\ n' = n + 1 /\ st' = "request"
  /\ msgs' = {} /\ failed' = FALSE /\ open' = FALSE
  /\ wrong' = wrong + One(~Satisfied(case'))
  /\ missed' = missed + One(ErrorMissed(case'))
  /\ UNCHANGED <<errors, gateway, exit>>

CountPerMessage == Cardinality(msgs)

Count == One(failed)

\* Check returned; an error is counted and the loop goes on.
Verdict ==
  /\ st = "verdict"
  /\ errors' = errors + Count
  /\ st' = "next"
  /\ UNCHANGED <<n, case, msgs, failed, open, wrong, missed, gateway, exit>>

CloseAfterSuccess ==
  /\ st = "next"
  /\ gateway' = IF errors = 0 THEN "down" ELSE gateway
  /\ st' = "closed"
  /\ UNCHANGED <<n, case, msgs, failed, open, errors, wrong, missed, exit>>

\* The Runner is closed before the verdict of the session.
Close ==
  /\ st = "next"
  /\ gateway' = "down"
  /\ st' = "closed"
  /\ UNCHANGED <<n, case, msgs, failed, open, errors, wrong, missed, exit>>

Exit ==
  /\ st = "closed"
  /\ exit' = IF errors = 0 THEN "ok" ELSE "failed"
  /\ st' = "over"
  /\ UNCHANGED <<n, case, msgs, failed, open, errors, wrong, missed, gateway>>

-----------------------------------------------------------------------------
(* Runner.Check *)

Returns(err) == st' = "verdict" /\ failed' = err

AnyErrorWillDo == case.err = "none"

newRequestFails == case.do = "norequest"

Unexpected == newRequestFails \/ case.do # case.err

\* newRequest and the client: an error is fine if it is the expected one.
Do ==
  /\ st = "request"
  /\ IF case.do = "answer"
     THEN st' = "status" /\ open' = TRUE /\ UNCHANGED failed
     ELSE Returns(Unexpected) /\ UNCHANGED open
  /\ UNCHANGED <<n, case, msgs, errors, wrong, missed, gateway, exit>>

-----------------------------------------------------------------------------
(* assertResponse *)

AssertStatus ==
  /\ st = "status"
  /\ msgs' = IF case.answer.status THEN msgs ELSE msgs \cup {"status"}
  /\ st' = "headers"
  /\ UNCHANGED <<n, case, failed, open, errors, wrong, missed, gateway, exit>>

\* vs[0] of an empty list is out of range: the process panics.
Panics == "empty" \in case.answer.headers

AssertHeaders ==
  /\ st = "headers"
  /\ IF Panics
     THEN st' = "over" /\ exit' = "panic" /\ UNCHANGED msgs
     ELSE /\ msgs' = msgs \cup (case.answer.headers \cap {"differs", "missing"})
          /\ st' = "body" /\ UNCHANGED exit
  /\ UNCHANGED <<n, case, failed, open, errors, wrong, missed, gateway>>

StaysOpen == open

\* resp.Body.Close() runs once the body was read.
OpenAfterRead == FALSE

\* A read error is returned by itself: the messages so far are lost, and the
\* body is not closed.
ReadBody ==
  /\ st = "body"
  /\ IF case.answer.body = "broken"
     THEN Returns(TRUE) /\ msgs' = {} /\ UNCHANGED open
     ELSE st' = "content" /\ open' = OpenAfterRead /\ UNCHANGED <<failed, msgs>>
  /\ UNCHANGED <<n, case, errors, wrong, missed, gateway, exit>>

Replaced(ms) == {"content"}

Reported(ms) == ms \cup {"content"}

\* With a schema: an empty body, a schema that cannot be used, a body that is
\* not JSON or does not validate each end the assertion with the messages so
\* far and one more.
AssertSchema ==
  /\ st = "content" /\ case.answer.want \in {"schema", "both", "badschema"}
  /\ IF case.answer.want # "badschema" /\ case.answer.valid
     THEN Returns(msgs # {}) /\ UNCHANGED msgs
     ELSE Returns(TRUE) /\ msgs' = Reported(msgs)
  /\ UNCHANGED <<n, case, open, errors, wrong, missed, gateway, exit>>

\* Without a schema the body is compared if the case has one.
AssertBody ==
  /\ st = "content" /\ case.answer.want \in {"nothing", "body"}
  /\ msgs' = IF case.answer.want = "body" /\ ~case.answer.match
             THEN Reported(msgs) ELSE msgs
  /\ Returns(msgs' # {})
  /\ UNCHANGED <<n, case, open, errors, wrong, missed, gateway, exit>>

\* The process of the session is gone.
Over == st = "over" /\ UNCHANGED vars

Next ==
  \/ NewIntegration \/ NextCase \/ Do
  \/ AssertStatus \/ AssertHeaders \/ ReadBody \/ AssertSchema \/ AssertBody
  \/ Verdict \/ Close \/ Exit \/ Over

Spec == Init /\ [][Next]_vars

-----------------------------------------------------------------------------
(* Properties *)

\* The values each variable of the session can take; a case fails once.
TypeOK ==
  /\ n \in 0..MaxCases /\ case \in Cases
  /\ st \in {"begin", "next", "request", "status", "headers", "body", "content",
             "verdict", "closed", "over"}
  /\ msgs \subseteq {"status", "differs", "missing", "content"}
  /\ failed \in BOOLEAN /\ open \in BOOLEAN
  /\ errors \in 0..n /\ wrong \in 0..n /\ missed \in 0..n
  /\ gateway \in {"up", "down"}
  /\ exit \in {"no", "ok", "failed", "panic", "nostart", "specs", "notready"}

\* The comment on Check (integration.go:337) read with the "error" field of a
\* test case (integration.go:66-72): the session counts exactly the cases that
\* the gateway does not satisfy, and its exit code says whether there are any.
CountsUnsatisfied ==
  /\ st \in {"next", "closed"} => errors = wrong
  /\ exit \in {"ok", "failed"} => ((exit = "ok") <=> (wrong = 0))

\* What the counter of main misses is the errors that were expected and did not
\* happen, where the answer is as described, and nothing else: every other
\* case that is not satisfied is counted once, whatever early return decided
\* it, no satisfied one is, and the exit code follows the counter
\* (integration.go:338-465, cmd/pucora-integration/main.go:21-39).
OnlyErrorsMissed ==
  /\ st \in {"next", "closed"} => errors + missed = wrong
  /\ exit \in {"ok", "failed"} => ((exit = "ok") <=> (wrong = missed))

\* Of an answer that can be read, no mismatch is hidden by a later one: the
\* report names the status, each kind of header mismatch and the content, if
\* they are wrong, whichever return ends the assertion (integration.go:363-398,
\* 402-464).  A body that cannot be read is another matter: the return at 400
\* drops what was found before it.
NothingHidden ==
  st = "verdict" /\ case.do = "answer" /\ case.answer.body # "broken" =>
    /\ ~case.answer.status => "status" \in msgs
    /\ case.answer.headers \cap {"differs", "missing"} \subseteq msgs
    /\ ContentAsWanted(case.answer) \/ "content" \in msgs

\* The gateway is down when the session ends, failed cases or not.  Two ways out
\* leave it running: a ready check that was not answered in time, and the panic
\* of a case that expects an empty list for a header the answer does not have
\* (cmd/pucora-integration/main.go:14-19, 32, integration.go:264-266, 382).
GatewayTakenDown == st = "over" /\ gateway = "up" => exit \in {"notready", "panic"}

\* The body of every answer is closed by the time its case is decided, unless
\* reading it failed (integration.go:398-402).
BodiesClosed == st \in {"verdict", "next"} /\ open => case.answer.body = "broken"
=============================================================================
