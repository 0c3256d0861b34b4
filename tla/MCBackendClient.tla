--------------------------- MODULE MCBackendClient ---------------------------
(* Two backends, every TLS setting, layers on both sides of the oauth2 switch. *)
EXTENDS BackendClient, TLC

CONSTANTS b1, b2, c1, c2

MCBackends == {b1, b2}
MCCalls == {c1, c2}

CallSymmetry == Permutations(MCBackends) \cup Permutations(MCCalls)

MCProfiles ==
  [tls: TLSKinds,
   options: { {}, {"oauth2"}, {"noredirect", "ntlm", "awssigv4"},
              {"oauth2", "httpcache", "gcpauth", "plugin"} }]
=============================================================================
