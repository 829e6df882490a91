CONSTANTS
    kit = kit
    theme = theme
    latest = latest
    stable = stable
    Order <- KitFirst
    MaxVersion = 2
    Tags <- BothTags
    Latest <- latest
    Moved <- ThemeMoves
    Needs <- NeedsTags
    Files <- KitFiles
    MaxRuns = 3
    Moves <- AllMoves
SPECIFICATION RegistrySpec
CHECK_DEADLOCK FALSE
INVARIANTS
    UpdateSettles
