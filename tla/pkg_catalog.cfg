CONSTANTS
    d1 = d1
    d2 = d2
    d3 = d3
    d4 = d4
    NoStr = NoStr
    Pkgs <- MCCatPkgs
    MaxCopies <- MCCatMaxCopies
    MaxRecords <- MCMaxRecords
SPECIFICATION CatSpec
INVARIANT CatalogStringsOwned
INVARIANT CatalogSizeMatches
CHECK_DEADLOCK FALSE
