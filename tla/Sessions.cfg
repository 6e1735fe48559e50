\* Four calls of two users, two of which may overlap.
SPECIFICATION Spec
CONSTANTS
  Calls = {c1, c2, c3, c4}
  NoToken = NoToken
  Users = {alice, bob}
  Overlap = 2
SYMMETRY CallSymmetry
INVARIANTS
  TypeOK
  ReplacementIsIssued
  LiveTokensAreForks
  ReusedFamilyIsDead
PROPERTIES
  ReuseStaysDetectable
  RevocationIsComplete
