-------------------------- MODULE MCRequestPipeline --------------------------
(* Two concurrent requests on endpoints that combine the roles. *)
EXTENDS RequestPipeline

CONSTANTS r1, r2

MCRequests == {r1, r2}

MCEndpoints ==
  { {"jose", "h.ratelimit", "cb", "b.ratelimit"},
    {"botdetector", "apikeys", "h.tiered", "h.redis", "b.lua"},
    {"jose", "ws", "h.ratelimit", "cb"},
    {"basicauth", "policies", "p.cel", "jsonschemaresp", "h.otel"},
    {"s.otel", "cors", "s.plugin", "e.httpsecure", "jose", "h.ratelimit"},
    {"soap", "amqp", "b.ratelimit", "cb"},
    {"grpc", "lambda", "h.ratelimit", "p.lua"} }
==============================================================================
