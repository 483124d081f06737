\* One screen that saves twice, two lookups.
CONSTANTS
    Screens = {ui}
    Lookups = {l1, l2}
    Plans = {p1}
    NoPlan = NoPlan
    Rosters = {old, new}
    NoRoster = NoRoster
    MaxReplaced = 2
SPECIFICATION WorkspaceSpec
INVARIANTS PeopleFollowTheFile
