SPECIFICATION MessagesSpec
CONSTANTS
  Half32 = 32768
  Half64 = 262144
  Null = Null
  ZeroBytes = ZeroBytes
  Reads <- TypeReads
  Owned <- TypeOwned
  Rank <- TypeRank
  Deepest = 2
  Inputs <- MCInputs
  Addrs = {a1, a2, a3}
  Templates <- MCTemplates
  Urls = {"mirror"}
  Versions = {"1.20"}
  Stored <- MCStored
  Programs = {{}, {"provider"}, {"loader"}, {"family"}}
  MaxList = 2
  MaxLost = 1
SYMMETRY Symmetry
INVARIANTS NothingLeaked ReadsBack SuccessIsWhole OneOwner SelectionReadsBack
PROPERTIES SelectedMirrors
CHECK_DEADLOCK FALSE
