\* A fee update that is rolled back before it was signed.
SPECIFICATION Spec
CONSTANTS
  Opener = Opener
  Acceptor = Acceptor
  OpenerBalance = 6
  AcceptorBalance = 6
  OpenFeerate = 1
  MaxAcceptedHtlcs = 1
  Amounts = {1}
  Feerates = {2}
  OpenerAdds = 1
  AcceptorAdds = 0
  MaxFeeUpdates = 1
  MaxDrops = 1
PROPERTIES
  EverySignatureCoversAnUpdate
CHECK_DEADLOCK FALSE
