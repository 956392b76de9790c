SPECIFICATION BookSpec
CONSTANTS
    MdIds = {0, 1, 2, 3}
    MdPrices = {0, 1, 2, 3}
    MdQuantities = {0, 1, 2, 4}
INVARIANT BookTypeOK
INVARIANT LevelsExact
INVARIANT ViewsAgree
