\* Two visitors, four object ids, room for three objects and two per visitor, four minutes with one mutation each.
SPECIFICATION Spec
CONSTANTS
  Actors = {alice, bob}
  Ids = {i1, i2, i3, i4}
  Sockets = {s1}
  Kinds = {"note", "portal"}
  Spots = {"here"}
  NoActor = NoActor
  NoObject = NoObject
  Closed = Closed
  MaxTotal = 3
  MaxActor = 2
  MaxOps = 2
  RateLimit = 1
  MaxVersion = 3
  MaxMinute = 3
SYMMETRY BoardSymmetry
INVARIANTS
  TypeOK
  Capacity
  AppliedOnceInOrder
  SocketsCurrent
  RateHonoured
  RoomInv
PROPERTIES
  ImplementsLedger
