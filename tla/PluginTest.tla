------------------------------ MODULE PluginTest ------------------------------
(***************************************************************************)
(* The test-plugin command, testPluginFunc of plugin.go: for each artifact    *)
(* named on the command line it runs the checks that the flags ask for and     *)
(* the additional ones, and the exit code tells whether all of them passed.    *)
(***************************************************************************)
EXTENDS Naturals, Sequences, FiniteSets

CONSTANTS Extra,    \* the checks added with AddCheck
          MaxArgs   \* bound: artifacts on the command line

ASSUME PluginTestAssumption == MaxArgs \in Nat

Kinds == <<"server", "modifier", "client">>   \* in the order they are checked

KindSet == {"server", "modifier", "client"}

Checks == KindSet \cup Extra

\* An artifact as the command meets it: missing, impossible to open, or there;
\* and the checks it does not pass.
Artifacts == [file: {"missing", "unreadable", "there"}, bad: SUBSET Checks]

VARIABLES
  args,      \* the artifacts, in order
  expected,  \* the checks asked for: the flags given and the additional ones
  i,         \* the artifact under test
  todo,      \* checks still to run on it
  ok,        \* the local variable of the loop
  failed, globalOK,
  ran,       \* the checks that were run, on which artifact
  exit       \* the exit code, or Running

vars == <<args, expected, i, todo, ok, failed, globalOK, ran, exit>>

Running == 2   \* no exit code yet

Init ==
  /\ args \in UNION {[1..n -> Artifacts] : n \in 0..MaxArgs}
  /\ expected \in SUBSET Checks
  /\ i = 0 /\ todo = {} /\ ok = TRUE
  /\ failed = 0 /\ globalOK = TRUE
  /\ ran = {} /\ exit = Running

\* No artifact, or nothing to check it for.
Usage ==
  /\ exit = Running /\ i = 0
  /\ Len(args) = 0 \/ expected = {}
  /\ exit' = 1
  /\ UNCHANGED <<args, expected, i, todo, ok, failed, globalOK, ran>>

\* Only an artifact that does not exist is skipped; one that cannot be opened
\* for another reason goes on to the checks.
Skips(a) == a.file = "missing"

Open ==
  /\ exit = Running /\ Len(args) > 0 /\ expected # {}
  /\ todo = {} /\ i < Len(args)
  /\ i' = i + 1
  /\ IF Skips(args[i + 1])
     THEN failed' = failed + 1 /\ globalOK' = FALSE /\ UNCHANGED <<todo, ok>>
     ELSE todo' = expected /\ ok' = TRUE /\ UNCHANGED <<failed, globalOK>>
  /\ UNCHANGED <<args, expected, ran, exit>>

\* checkHandlerPlugin, checkModifierPlugin and checkClientPlugin ask a loader,
\* which reports an error or does not and cannot load what it cannot read; an
\* additional check decides for itself.
Passes(a, c) == c \notin a.bad /\ (c \in KindSet => a.file = "there")

\* The checks run in a fixed order, the additional ones last.
IsNext(c) ==
  IF c \in KindSet
  THEN \A k \in 1..3 : Kinds[k] \in todo =>
         \E m \in 1..k : Kinds[m] = c
  ELSE todo \cap KindSet = {}

VerdictOverwritten(c) == Passes(args[i], c)

\* A check that passes leaves the verdict of the artifact as it is.
Verdict(c) == Passes(args[i], c) /\ ok

StopsAtFailure(c) == todo = {c} \/ ~Verdict(c)

LastCheck(c) == todo = {c}

CountsEach(c) == ~Verdict(c)

\* The artifact is counted when its checks are over.
CountsFailure(c) == LastCheck(c) /\ ~Verdict(c)

\* The verdict of the artifact joins the global one when no check is left.
Check(c) ==
  /\ exit = Running /\ c \in todo /\ IsNext(c)
  /\ ok' = Verdict(c)
  /\ todo' = IF LastCheck(c) THEN {} ELSE todo \ {c}
  /\ failed' = IF CountsFailure(c) THEN failed + 1 ELSE failed
  /\ globalOK' = IF LastCheck(c) THEN globalOK /\ Verdict(c) ELSE globalOK
  /\ ran' = ran \cup {<<i, c>>}
  /\ UNCHANGED <<args, expected, i, exit>>

Finish ==
  /\ exit = Running /\ Len(args) > 0 /\ expected # {}
  /\ todo = {} /\ i = Len(args)
  /\ exit' = IF globalOK THEN 0 ELSE 1
  /\ UNCHANGED <<args, expected, i, todo, ok, failed, globalOK, ran>>

Exited == exit # Running /\ UNCHANGED vars

Next == Usage \/ Open \/ (\E c \in Checks : Check(c)) \/ Finish \/ Exited

Spec == Init /\ [][Next]_vars

-----------------------------------------------------------------------------
(* Properties *)

\* The values each variable of the command can take; an artifact fails once.
TypeOK ==
  /\ expected \subseteq Checks
  /\ i \in 0..Len(args) /\ todo \subseteq expected
  /\ ok \in BOOLEAN /\ globalOK \in BOOLEAN
  /\ failed \in 0..i
  /\ ran \subseteq (1..Len(args)) \X expected
  /\ exit \in {0, 1, Running}

\* An artifact passes when it exists, no requested check turns it down, and the
\* loaders can read it if one of them is asked.
Good(a) ==
  /\ a.file # "missing" /\ a.bad \cap expected = {}
  /\ a.file = "unreadable" => expected \cap KindSet = {}

\* The exit code is 0 exactly when there was something to check and every
\* artifact passes every requested check, and the number of failures reported
\* is the number of artifacts that do not pass, each counted once however many
\* of its checks fail (plugin.go:128-189).
ExitTellsVerdict ==
  LET asked == Len(args) > 0 /\ expected # {}
      bad == {k \in 1..Len(args) : ~Good(args[k])}
  IN  exit # Running =>
        /\ (exit = 0) <=> asked /\ bad = {}
        /\ asked => failed = Cardinality(bad)

\* A failed check hides nothing: every requested check runs on every artifact
\* that exists, so one invocation reports all the problems (plugin.go:158-172).
NothingSkipped ==
  exit # Running /\ Len(args) > 0 =>
    ran = {k \in 1..Len(args) : ~Skips(args[k])} \X expected
=============================================================================
