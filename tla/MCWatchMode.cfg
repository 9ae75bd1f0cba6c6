\* Two files and three changes; every change has a time of its own.
SPECIFICATION WatchSpec
CONSTANTS
    Files = {"a", "b"}
    Texts = {"old", "new"}
    Chunked = {"a"}
    MaxChanges = 3
    Coarse = FALSE
INVARIANTS NothingMissed
PROPERTIES ChangesAreShown
