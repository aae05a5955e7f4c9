SPECIFICATION SCSpec
CONSTANTS
  LowerCase <- MCLowerCase
  ProcessSentence <- MCProcess
  Order = 2
  LineBreak <- MCLineBreak
  MaxNOC = 2
  NoClass = "-"
  Thousand = 10
  MaxShiftSize = 50
  MaxShiftDist = 50
  BeamWidth = 20
  Inf = 1000
  MultFact = 600
  Root <- MCRoot
  Brief <- MCBrief
  BleuScore <- MCBleuScore
  MeteorStats <- MCMeteorStats
  MeteorScore <- MCMeteorScore
  Jobs <- MCJobs
INVARIANTS StatsAreOfWords DistancesAreLeast EvaluationIsOfParts
