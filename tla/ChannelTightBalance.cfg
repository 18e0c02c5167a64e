\* An acceptor that spends what it has just received.
SPECIFICATION Spec
CONSTANTS
  Opener = Opener
  Acceptor = Acceptor
  OpenerBalance = 1
  AcceptorBalance = 0
  OpenFeerate = 1
  MaxAcceptedHtlcs = 1
  Amounts = {1}
  Feerates = {2}
  OpenerAdds = 1
  AcceptorAdds = 1
  MaxFeeUpdates = 0
  MaxDrops = 0
INVARIANTS
  AffordableAddIsAccepted
CHECK_DEADLOCK FALSE
