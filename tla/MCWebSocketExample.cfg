SPECIFICATION Spec
CONSTANTS
  Clients = {c1, c2}
  Plans <- MCPlans
  MaxDrops = 1
INVARIANTS
  TypeOK
  OwnReply
  HandshakeHeld
PROPERTY Served
