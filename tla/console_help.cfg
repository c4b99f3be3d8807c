SPECIFICATION ConsoleSpec
CONSTANTS
    Word = 1048576
    Cpu <- TheCpu
    Below <- TheStack
    MAX_COMMANDS = 32
    MAX_TOKENS = 2
    ExecBuffer = 7
    PrintBuffer = 6
    NameOf <- Names
    Time <- SomeTime
    SCREEN_WIDTH = 4
    SCREEN_HEIGHT = 2
    Byte = 4
    Boots <- BootMessages
    KernelBoot <- KernelMessages
    PromptText <- ThePrompt
    Typed <- TheLines
    Keys <- TheKeys
    SpuriousAt <- InMain
    CrashAt <- InCrashMe
    MaxEvents = 2
INVARIANTS
    MeansWhatItSays
