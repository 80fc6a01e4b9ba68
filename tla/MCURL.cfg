\* The one behaviour ends with its assignment.
CONSTANTS
    Letters <- MCLetters
    specials <- MCspecials
    FileScheme <- MCFileScheme
    Localhost <- MCLocalhost
    IPv6Texts <- MCIPv6Texts
    None = None
    URLTexts <- MCURLTexts
    RelativeTexts <- MCRelativeTexts
    BaseTexts <- MCBaseTexts
    EditedTexts <- MCEditedTexts
    Values <- MCValues
SPECIFICATION Spec
INVARIANTS ResultsWhole HrefStable
PROPERTIES Advances
CHECK_DEADLOCK FALSE
