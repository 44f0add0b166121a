CONSTANTS
    CssPages <- MCCssPages
    CssSelectors <- MCCssSelectors
SPECIFICATION CssSpec
INVARIANTS
    FindsWhatIsMeant
CHECK_DEADLOCK FALSE
