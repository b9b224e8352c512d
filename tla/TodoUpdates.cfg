SPECIFICATION Spec
CONSTANTS
    None = None
    Odd = Odd
    Word = {"home", "120", "60"}
    Midnight <- MCMidnight
    Texts <- MCTexts
    Lines <- MCLines
    Defaults <- MCDefaults
    Settings <- MCSettings
    Clears <- MCClears
INVARIANTS ReadersAgree UrgencyMonotone
PROPERTY UpdateKeepsTheRest
