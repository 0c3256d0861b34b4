---------------------------- MODULE ServiceGroup ----------------------------
(***************************************************************************)
(* What the executor promises of the work it supervises, whatever goroutines *)
(* it uses for it: one server and a set of helpers that run until a stop is   *)
(* requested, and a process that ends only when all of them have ended.       *)
(***************************************************************************)
CONSTANT Helpers

VARIABLES life,      \* "up" until the process ends
          stopping,  \* a stop was requested: by the operator or by a member
          server,    \* "idle", "live" or "gone"
          helper     \* the same, for each helper

vars == <<life, stopping, server, helper>>

States == {"idle", "live", "gone"}

Init ==
  /\ life = "up" /\ stopping = FALSE
  /\ server = "idle"
  /\ helper = [h \in Helpers |-> "idle"]

RequestStop ==
  /\ life = "up" /\ stopping' = TRUE
  /\ UNCHANGED <<life, server, helper>>

StartServer ==
  /\ life = "up" /\ server = "idle" /\ server' = "live"
  /\ UNCHANGED <<life, stopping, helper>>

\* The end of the server is a request to stop for everyone else.
EndServer ==
  /\ life = "up" /\ server = "live" /\ server' = "gone"
  /\ stopping' = TRUE
  /\ UNCHANGED <<life, helper>>

\* A helper may be over without having run.
StartHelper(h) ==
  /\ life = "up" /\ helper[h] = "idle"
  /\ \E s \in {"live", "gone"} : helper' = [helper EXCEPT ![h] = s]
  /\ UNCHANGED <<life, stopping, server>>

\* A helper ends on its own only with an error, which stops everyone.
EndHelper(h) ==
  /\ life = "up" /\ helper[h] = "live"
  /\ helper' = [helper EXCEPT ![h] = "gone"]
  /\ stopping' = TRUE
  /\ UNCHANGED <<life, server>>

\* The process ends only when nobody is at work, and nobody begins afterwards.
Exit ==
  /\ life = "up"
  /\ server # "live" /\ \A h \in Helpers : helper[h] # "live"
  /\ life' = "down"
  /\ stopping' = TRUE
  /\ UNCHANGED <<server, helper>>

Next ==
  \/ RequestStop \/ StartServer \/ EndServer \/ Exit
  \/ \E h \in Helpers : StartHelper(h) \/ EndHelper(h)

Spec == Init /\ [][Next]_vars
=============================================================================
