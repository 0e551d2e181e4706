\* The options of the program, and others with words around the width of a line.
CONSTANTS
    OptionLists <- MCOptionLists
    OwnOptions <- MCOwnOptions
SPECIFICATION HelpSpec
INVARIANT HelpTextIsWhole
