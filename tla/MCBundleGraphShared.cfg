\* Two callers; a loop elsewhere takes the orchestration; nobody dies.
CONSTANTS
  c1 = c1  c2 = c2  u1 = u1
  Callers = {c1, c2}
  Users = {u1}
  Runs = {}
  MaxIds = 3
  LastFault = 0
SPECIFICATION Spec
SYMMETRY CallerSymmetry
INVARIANTS TypeOK RowNamesItsGraph NothingLeftOver FilesFollowTheRow
PROPERTY UsedGraphStays
\* The bound on identities may be used up.
CHECK_DEADLOCK FALSE
