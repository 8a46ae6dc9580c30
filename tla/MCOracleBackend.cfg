CONSTANTS
  Reqs = {r1, r2, r3}
  Claims <- ClaimsMade
  deployer = deployer
  wallet = wallet
  Accounts <- AccountsUsed
  Deployer <- deployer
  Wallet <- wallet
  Torn = Torn
  NoProof <- NoLine
  NoNumber = "none"
SPECIFICATION FairSpec
CHECK_DEADLOCK FALSE
INVARIANTS
  TypeOK
  AcceptedIsAttested
  OnlySignedLinesAttested
  OneRecordPerRequest
  AnsweredIsRecorded
  HistoryIsComplete
PROPERTY SubmissionsAnswered
