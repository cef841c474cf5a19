SPECIFICATION MCSpec
CONSTANTS
  Raws <- MCRaws
  Errors <- MCErrors
  Ids <- MCIds
  TempCodes = {0, 2554, 2555, 17476, 64095, 64096, 65535}
  HumCodes = {0, 3145, 3146, 65535}
  Halves = {0, 7}
  Settings = {187}
  IntegrationTimes <- MCTimes
  Gains <- MCGains
  Sockets = {0, 7}
  Ips <- MCIps
  Macs <- MCMacs
  LinkModes <- MCLinks
  Masks <- MCMasks
  Versions = {4, 5}
  Frequencies <- MCFrequencies
  Bandwidths = {6, 7}
  SpreadingFactors = {5, 11}
  Levels = {1, 18}
  Preambles = {300}
  SymbolTimeouts = {512, 1024}
  CodingRates = {8, 32}
  RadioVersions = {0, 18}
INVARIANTS ReadingsTrue VemlSettingsHold WizSettingsHold SettingsHold
INVARIANTS ModemConsistent PowerConsistent
PROPERTIES OutputsTrue
CHECK_DEADLOCK FALSE
