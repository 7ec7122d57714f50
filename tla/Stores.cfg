SPECIFICATION SideSpec
CONSTANTS
  Nobody = Nobody
  NoProposal = NoProposal
  NoAccount = NoAccount
  Proposals = {"p1", "p2"}
  Ids = {"i1", "i2"}
  Clicks = {"c1", "c2"}
  RelayFails = TRUE
INVARIANTS TypesOK ListsAreOwn StepsOnce EndsRespected PublishedAnswered
PROPERTIES HoldsAreShown ProposalsReviewed
CHECK_DEADLOCK FALSE
