\* Batches of HTLCs up to max_accepted_htlcs, with lost connections and crashes.
SPECIFICATION Spec
CONSTANTS
  Opener = Opener
  Acceptor = Acceptor
  OpenerBalance = 6
  AcceptorBalance = 6
  OpenFeerate = 1
  MaxAcceptedHtlcs = 2
  Amounts = {1}
  Feerates = {2}
  OpenerAdds = 3
  AcceptorAdds = 0
  MaxFeeUpdates = 0
  MaxDrops = 2
INVARIANTS
  NeverFailsTheChannel
  ForceCloseRebuildsWhatThePeerSigned
  BooksAgreeWhenQuiet
PROPERTIES
  EverySignatureCoversAnUpdate
CHECK_DEADLOCK FALSE
