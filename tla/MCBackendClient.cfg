SPECIFICATION Spec
CONSTANTS
  b1 = b1
  b2 = b2
  c1 = c1
  c2 = c2
  Backends <- MCBackends
  Calls <- MCCalls
  Profiles <- MCProfiles
SYMMETRY CallSymmetry
INVARIANTS
  TypeOK
  OwnCertificate
