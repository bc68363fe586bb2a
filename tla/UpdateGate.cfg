SPECIFICATION FairSpec
CONSTANTS
    Day = 8
    Windows <- MCWindows
    DefaultCheckInterval = 4
    DefaultUpdateInterval = 8
    CheckEnvs = {Unset, Unparsable, 2, 6}
    UpdateEnvs = {Unset, Unparsable, 4}
    Slacks = {0, 2}
    Unset = Unset
    Unparsable = Unparsable
INVARIANTS
    TypeOK
PROPERTIES
    OneUpdatePerOpening
    PromptChecksMissNothing
    UpdatesGoOn
