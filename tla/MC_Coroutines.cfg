CONSTANTS
    Coroutines = {c1, c2}
    Main = Main
    None = None
    MaxCalls = 4
    MaxNested = 6
SPECIFICATION FairSpec
INVARIANT TypeOK
INVARIANT PreventExact
INVARIANT ChainsAreSound
INVARIANT PhpKeepsItsThread
INVARIANT BackToRest
PROPERTY EveryErrorLands
