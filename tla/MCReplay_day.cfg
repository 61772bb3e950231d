CONSTANTS
    fu = fu
    opt = opt
    acc = acc
    NoPrice = NoPrice
    Accounts = {acc}
    Symbols = {fu, opt}
    Meta <- Info
    OptionMargin <- CallMargin
    InitialBalance = 1200
    Tasks = {t1}
    Bars <- History
    Ticks <- SomeTicks
    Asks <- Handles
    ImplicitDuration = 2
    Requests <- Orders
    Width = 2
    MaxOrders = 2
SPECIFICATION Spec
INVARIANTS
    FrozenVolumes
    MoneyConserved
    DaysSettleOnce
    
    
    ReportExplainsMoney

CHECK_DEADLOCK FALSE
