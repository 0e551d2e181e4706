\* All texts of up to four characters, and hexadecimal ones of three digits.
CONSTANTS
    US = 256
    IncorrectType = IncorrectType
    MaxLength = 4
    Texts <- MCTexts
SPECIFICATION Spec
INVARIANTS
    WrapsAreLarge
    RefusesOnlyWhatDoesNotFit
