\* Lost connections and crashes at every point of the rounds of HTLCs and fee updates.
SPECIFICATION FairSpec
CONSTANTS
  Opener = Opener
  Acceptor = Acceptor
  OpenerBalance = 6
  AcceptorBalance = 6
  OpenFeerate = 1
  MaxAcceptedHtlcs = 1
  Amounts = {1}
  Feerates = {2}
  OpenerAdds = 1
  AcceptorAdds = 1
  MaxFeeUpdates = 1
  MaxDrops = 2
INVARIANTS
  TypeOK
  NeverFailsTheChannel
  ForceCloseRebuildsWhatThePeerSigned
  ForwardsOnlyIrrevocable
  SavedStateIsNeverRevoked
  OneUnrevokedCommitment
  OwedSignatureIsBeingSent
  BooksAgreeWhenQuiet
PROPERTIES
  ComesToRest
CHECK_DEADLOCK FALSE
