SPECIFICATION Spec
CONSTANTS
    Catalogues <- BothCatalogues
    Categories <- SomeCategories
    NoFilter = "any"
    Limits <- SomeLimits
    Forged <- SomeForged
INVARIANTS
    PagesTileTheList
    StaleCursorIsRefused
PROPERTIES
    LinksLeadSomewhere
    NothingSkippedGoingBack
    BackUndoesNext
