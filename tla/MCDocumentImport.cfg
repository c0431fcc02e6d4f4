SPECIFICATION Spec
CONSTANTS
    MarkdownBlocks <- MCMarkdownBlocks
    Paragraphs <- MCParagraphs
    ImageSizes = {1, 2, 3}
    MaxBlocks = 3
    MaxPages = 2
    MaxDepth = 6
    MaxNodes = 12
    MaxBytes = 14
    LongText = 10
    MaxImage = 2
    MaxTotal = 3
INVARIANTS
    NothingIsLost
    RefusalIsExplained
CHECK_DEADLOCK FALSE
