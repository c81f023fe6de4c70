SPECIFICATION BrowseSpec
CONSTANTS
    r1 = r1
    short = short
    long = long
    None = None
    Readers <- MCReaders
    Names <- MCNames
    Versions <- MCVersions
    Children <- MCChildren
    Size <- MCSize
    MaxKeys = 5
    PageSize = 2
INVARIANTS
    BrowseTypeOK
    LoggedIfServed
    ListedOnce
    PagesWhole
