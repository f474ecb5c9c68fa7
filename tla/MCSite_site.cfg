\* Ten pages that come, go and move, and a titan client; or six, two of them
\* headers that may be drafted.
CONSTANTS
    Words = {"", "index", "a", "d", "v2", "gmi", "cgi", "txt", "header", "feed",
             "xml"}
    Paths <- MCPaths
    HiddenPaths <- MCHidden
    Contents <- MCContents
    NoDoc = NoDoc
    Urls <- MCUrls
    Editors = {e1}
    DraftPaths <- Headed
    Allowed <- MCAllowed
    MaxIncludeDepth = 4
SPECIFICATION MCSpec
INVARIANTS LinksLead TitanWritesWhatWasFetched
PROPERTIES PreviewIsServed
