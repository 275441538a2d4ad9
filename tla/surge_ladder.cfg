SPECIFICATION FairSpec
CONSTANTS
  Offer = {team, ndrf}
  Min2 = {team}
  Min3 = {}
  Loads <- LoadsThatOccur
  Evaluator = {e1, e2}
  Officer = {o1}
  DescendAfter = 2
  MaxAid = 2
  MaxRaceAid = 1
  MaxFails = 1
  Scenarios = {{"demo", "crews_rest", "by_hand"}, {"demo", "crews_rest", "fails"}, {"demo", "officer"}, {"demo", "races"}}
INVARIANTS OneAskPerOffer
PROPERTIES AidIsAnswered LadderFollowsLoad
CHECK_DEADLOCK FALSE
