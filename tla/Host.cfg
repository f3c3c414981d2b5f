CONSTANTS
  Stock <- StockFiles
  Ports = {7443, 8443}
  DefaultPort = 7443
  MaxEvents = 3
  MaxCA = 2
  Adapters = {"eth", "wifi"}
  Statics <- ServerLists
  MaxTurns = 3
SPECIFICATION Spec
INVARIANTS  OthersLinesKept UninstallSticks TrustSurvivesReruns NoDeadResolver StaticServersReturn NoLoopbackUpstream
PROPERTIES RedirectComesBack GuestsLeftAlone
CHECK_DEADLOCK FALSE
