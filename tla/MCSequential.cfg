SPECIFICATION Spec
CONSTANTS
    TrimSpace <- MCTrimSpace
    Horizon = 4
    MaxIntents = 3
    PlanAliases <- MCAliases
    PlanIDs <- MCIDs
    MaxListed = 2
    MaxDuration = 63
    MaxFailures = 9
    LookupAliases <- MCLookupAliases
    LookupIDs <- MCLookupIDs
    MaxIDs = 2
    Limit = 2
    MaxChanges = 1
    Widths <- MCWidths
    Heights <- MCHeights
    Labels = {1, 12, 20}
    Details = {0, 5, 9, 16}
    Counts = {0, 13}
    Times = {0, 4, 7}
    MaxGroups = 5
    Subjects = {1, 2}
    Keys <- MCKeys
    Cfg <- MCCfg
    Events <- MCEvents
    Source = 1
    Scope <- MCScope
    Plans <- MCPlans
    Inputs <- MCInputs
    Number <- MCNumber
    Padded <- MCPadded
    Lowered <- MCLowered
    Placeholder <- MCPlaceholder
    Partial <- MCPartial
INVARIANTS
    BoundaryIsExact
    StateFollowsWindows
    AppliedPlanSatisfies
    DelayIsCappedDoubling
    ResolvedIsConfirmed
    FrameFits
    PreviewIsWhatHappens
    EffectiveValues
    UsableConfig
    WritesAccounted
    SuccessIsComplete
CHECK_DEADLOCK FALSE
