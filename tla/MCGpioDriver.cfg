SPECIFICATION HSpec
CONSTANTS
  Width <- MCWidth
  Word <- MCWord
  Banks <- MCBanks
  Configs <- MCConfigs
  Seed <- MCSeed
  Tried <- MCTried
  Altered <- MCAltered
INVARIANTS ShadowIsRegister PassedIsReference RightPasses
PROPERTY Implements
