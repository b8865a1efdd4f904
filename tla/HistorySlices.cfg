SPECIFICATION BrokerSpec
CONSTANTS
    Lookback = 1
    Year = 1
    Installed = 7
    MaxHalf = 7
    MaxActive = 1
    MaxSetbacks = 0
PROPERTIES
    SlicesUntilExplained
