\* The web server and the CLI on one session.
CONSTANTS
  web = web  cli = cli  server = server  shell = shell
  Callers = {web, cli}
  Home <- TwoHomes
  Direct = {cli}
  Rounds = {r1, r2}
  Outputs <- SomeOutputs
  Nobody = Nobody
  MaxMessages = 2
  TalkCycle = 3
  Mortal = {server}
SPECIFICATION FairSpec
INVARIANTS StatusTellsTheRound ConfirmedBeforeBundle NoEntryLost ReadyOverValidFile EveryRoundMayRepair RecordedPidHasItsExecutor
PROPERTY CancelEndsTheRound
CHECK_DEADLOCK FALSE
