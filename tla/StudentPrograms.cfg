SPECIFICATION MCSpec
CONSTANTS
  Users = {ann, bob}
  Ids = {0, 1}
  Scores = {0, 1}
  MaxRecords = 3
  Faults = {"read", "open", "full", "crash"}
  Nobody = Nobody
  NoName = NoName
  ann = ann
  bob = bob
  Garbled <- AFewGarbled
  AllWindows = {w1, w2}
  Typed = {"x"}
  Alice = "Alice"
  Bob = "Bob"
  MaxId = 3
  MaxWrites = 2
SYMMETRY AlikeWindows
VIEW WhatMatters
INVARIANTS TypesOK UsernamesUnique CopySurvives WindowsTellTruth SeedsRight
PROPERTY ImplementsDirectory
