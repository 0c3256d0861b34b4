-------------------------- MODULE MCHarnessSession --------------------------
(* Sessions over every kind of case with at most two expected headers. *)
EXTENDS HarnessSession

\* The answer of a case that gets none does not matter.
NoAnswer == [status |-> FALSE, headers |-> {}, body |-> "empty",
             want |-> "nothing", match |-> FALSE, valid |-> FALSE]

MCHeaders == { {}, {"same"}, {"differs"}, {"optional"}, {"empty"},
               {"missing", "differs"}, {"same", "missing"} }

MCCases ==
  { c \in [do: {"answer"}, err: {"none", "E"},
           answer: [status: BOOLEAN, headers: MCHeaders,
                    body: {"broken", "empty", "text", "json"},
                    want: {"nothing", "body", "schema", "both", "badschema"},
                    match: BOOLEAN, valid: BOOLEAN]] :
      c.answer.valid => c.answer.body = "json" }
  \cup [do: {"norequest", "E", "other"}, err: {"none", "E"}, answer: {NoAnswer}]
=============================================================================
