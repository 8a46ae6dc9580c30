CONSTANTS
  Reqs = {r1, r2}
  Claims <- ClaimsMade
  deployer = deployer
  wallet = wallet
  Accounts <- AccountsUsed
  Deployer <- deployer
  Wallet <- wallet
  Torn = Torn
  NoProof <- NoLine
  NoNumber = "none"
SPECIFICATION Spec
CHECK_DEADLOCK FALSE
INVARIANT RejectedIsNotAttested
