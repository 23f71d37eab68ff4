SPECIFICATION SplitSpec
CONSTANTS
    Configs <- MCConfigs
    Default <- MCDefault
    Subtotals <- MCSubtotals
INVARIANTS SplitWithinOrder
CHECK_DEADLOCK FALSE
