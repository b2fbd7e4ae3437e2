SPECIFICATION Spec
CONSTANTS
    MaxEvents = 6
    Limits <- SomeLimits
    AfterLength <- SomeLengths
    Forged <- SomeForged
INVARIANTS
    WalkShowsTheFeed
PROPERTIES
    OwnLinksAreServed
