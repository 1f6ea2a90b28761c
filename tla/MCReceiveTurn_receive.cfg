SPECIFICATION FairSpec
CONSTANTS
  n1 = n1
  Relays = {p1, p2}
  Names = {n1}
  NameOf <- MCNameOf
  Nil = Nil
  Torn = Torn
  Foreign = Foreign
  MaxTurn = 3
  MaxTroubles = 2
INVARIANTS
  SavesWhole
  OneIdentity
  ReadyIsOnDisk
PROPERTIES
  NoFileOverwritten
  StateIsAtomic
  IdentityIsAtomic
  TurnReceived
