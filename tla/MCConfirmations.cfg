SPECIFICATION Spec
CONSTANTS
    t1 = t1
    t2 = t2
    k1 = k1
    k2 = k2
    Tags <- MCTags
    Ticks = 2
    Trades <- MCTrades
    Tasks <- MCTasks
    TradeOf <- MCSameTrade
    NoTask = none
INVARIANTS CodesDiffer NoLostWaiter OnlyRivalsRaise
PROPERTY AskedForIsFound
CHECK_DEADLOCK FALSE
