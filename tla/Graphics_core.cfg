\* Commands of one kind in every order.
SPECIFICATION Spec
CONSTANTS
    p1 = p1  p2 = p2
    Page = {p1, p2}
    NoPage = NoPage
    Themes <- MCThemes
    MaxHandles = 2
    MaxSaves = 1
INVARIANTS
    TypeOK
    HandlesAreCounted
    FilesAreFinished
    StaysDrawable
    BaselineIsKept
PROPERTIES
    CurrentPageStays
