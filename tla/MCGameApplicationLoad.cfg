SPECIFICATION Spec
CONSTANTS
    menu = menu
    game = game
    arena = arena
    e1 = e1
    e2 = e2
    s1 = s1
    s2 = s2
    GameStates <- MCGameStates
    MenuStates <- MCMenuStates
    Exit = Exit
    NoState = NoState
    FirstState = game
    Level <- MCLevel
    Spawned <- MCSpawned
    MaxSpawns = 3
INVARIANT
    StartedAfterLoad
