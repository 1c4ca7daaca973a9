\* Every sequence of edits and of full and changed-only runs over two files.
SPECIFICATION Spec
CONSTANTS
    NumFiles = 2
    before = before
    after = after
    common = common
    moved = moved
    added = added
    route = route
    Contents <- MCContents
    SymbolsOf <- MCSymbolsOf
    SpecsOf <- MCSpecsOf
    Missing = Missing
    Provider = "kuzu"
INVARIANTS
    VisibleIsIndexed
    LexicalSound
    RunsLeaveWhatTheyRead
