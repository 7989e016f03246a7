CONSTANTS
    d1 = d1
    d2 = d2
    NoStr = NoStr
    Pkgs <- MCPkgs
    MaxCopies <- MCMaxCopies
SPECIFICATION PkgSpec
INVARIANT NoStringLeak
CHECK_DEADLOCK FALSE
