------------------------- MODULE MCWebSocketExample -------------------------
(* Two clients, with every pair of these command lines. *)
EXTENDS WebSocketExample

Line(url, body, expect, header) ==
  [url |-> url, body |-> body, expect |-> expect, header |-> header]

MCPlans ==
  {Line("echo", "text", "message", "none"),       \* smoke.sh:36
   Line("secure", "text", "message", "token"),    \* smoke.sh:41
   Line("secure", "text", "message", "none"),
   Line("secure", "text", "message", "malformed"),
   Line("chat", "text", "prefix", "none"),        \* smoke.sh:47
   Line("chat", "text", "exact", "none"),
   Line("chat", "text", "message", "none"),
   Line("chat", "blank", "prefix", "none")}
=============================================================================
