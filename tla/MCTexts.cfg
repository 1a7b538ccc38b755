SPECIFICATION TextSpec
CONSTANTS
    Alphabets <- const_Alphabets
    MaxTokens = 7
    Temps <- const_Temps
INVARIANTS
    PortionsSeparate
