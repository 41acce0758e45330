SPECIFICATION Spec
CONSTANTS
  None = None
  Intents <- MCIntents
  Epochs = {1, 2}
  NormalMailbox = 2
  CompletionMailbox = 1
  MaxSubmits = 3
  MaxInputs = 5
INVARIANTS
    TeardownBatch
    SettledOnce

    
