\* Two sources besides the document, two sets of flags, errors under nested speculations.
SPECIFICATION Spec
CONSTANTS
    Primary = "main"
    Feed = {"lib", "util"}
    Text = {"plain", "guarded"}
    Flags = {"debug", "release"}
    BadLex <- LexErrors
    MaxExtra = 2
    MaxErrors = 3
    MaxSpeculation = 3
    None = None
INVARIANTS NothingWithheld TokensCurrent
PROPERTIES ImplementsContract
