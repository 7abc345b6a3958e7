CONSTANTS
  r1 = r1
  r2 = r2
  la = la
  lb = lb
  Records = {r1, r2}
  NoRecord = none
  Existing = {r1}
  LabelOf <- OwnLabels
  Labels = {la, lb}
  Askers = {agent}
  Values = {v1, v2}
  Stages = {s1, s2}
  NoMove = nomove
  Cards = {1, 2, 3}
  Limit = 2
  Ttl = 1
  MaxVersion = 2
  LateRefusals = TRUE
SPECIFICATION Spec
INVARIANTS TypeOK OneCardPerChange WithinLimit
PROPERTIES NoLostUpdate ApprovedEditIsStored ExpiredIsNeverApplied
CHECK_DEADLOCK FALSE
