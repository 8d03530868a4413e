SPECIFICATION FairSpec
CONSTANTS
  Callers <- TwoCallers
  Conns <- TwoConns
  NoEvent = "no_event"
  NoValue = "no_value"
  Central <- CentralInOne
  OtherEvents <- TransmitEvents
  TxComplete = "write_cmd_tx_complete"
  Programs <- SmallPrograms
  MaxTries = 2
  Buffers = 1
INVARIANTS WriteTypeOK StatusOfOwnPairing KeysOfOwnPairing SharedSecretFits ParamsAnswered OrderlyCallGetsStatus SentOnce
CHECK_DEADLOCK FALSE
PROPERTY CallReturns
