SPECIFICATION FairSpec
CONSTANTS
    p = p
    l = l
    NoAccount = NoAccount
    Account <- MCAccount
    Live <- MCLive
    Configs <- MCConfigs
INVARIANTS IInv TradingMatchesLogin
PROPERTIES HungIsNoticed KeepsTrying
