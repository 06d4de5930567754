SPECIFICATION Spec
CONSTANTS
  Users = {ann, bob}
  Ids = {0}
  Scores = {0}
  MaxRecords = 2
  Faults = {"crash"}
  Nobody = Nobody
  NoName = NoName
  Garbled = {}
PROPERTY StudentsStay
