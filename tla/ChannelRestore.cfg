\* The opener runs on an old copy of its files.
SPECIFICATION RestoreSpec
CONSTANTS
  Opener = Opener
  Acceptor = Acceptor
  OpenerBalance = 6
  AcceptorBalance = 6
  OpenFeerate = 1
  MaxAcceptedHtlcs = 1
  Amounts = {1}
  Feerates = {2}
  OpenerAdds = 1
  AcceptorAdds = 1
  MaxFeeUpdates = 0
  MaxDrops = 0
  MaxRestores = 1
INVARIANTS
  StaleCommitmentIsNeverBroadcast
CHECK_DEADLOCK FALSE
