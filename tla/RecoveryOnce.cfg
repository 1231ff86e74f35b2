\* One turn, two bots that may overlap, three attempts and one fallback in a window of
\* four ticks; two deaths of a bot, of a task or of a resume.
SPECIFICATION FairSpec
CONSTANTS
    t1 = t1  old = old  new = new
    Turns <- MCTurns
    Bots <- MCBots
    Delays <- MCDelays
    MaxAttempts = 3
    Window = 4
    FallbackAfter = 2
    Chain = 1
    Horizon = 5
    MaxDeaths = 2
INVARIANT OneCall
PROPERTIES AnsweredOnce AnswersHeard
CHECK_DEADLOCK FALSE
