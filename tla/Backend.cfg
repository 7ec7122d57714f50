SPECIFICATION SideSpec
CONSTANTS
  Remotes = {"ra", "rb"}
  Local = "local"
  NoEndpoint = "none"
  Chain <- TwoChains
  Top <- NoMomentum
  ModeCalls = {"remote", "embedded"}
  Urls = {"rb"}
  MaxTransitions = 3
INVARIANTS TypesOK ConnectionAgrees OneEmbeddedNode ReceivesAsAsked NothingOwedIsMissed
PROPERTIES StepsStayTheirOwn ShownIsTrue
CHECK_DEADLOCK FALSE
