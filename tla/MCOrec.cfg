SPECIFICATION Spec
CONSTANTS
    BITS = 2
    Structs <- MCStructs
    Names <- MCNames
    Digits <- Literals
    MAX_VARS = 4
    MAX_FUNCS = 3
    MAX_CALLS = 3
    MAX_PARAMS = 2
    MAX_LOOP_DEPTH = 2
    MAX_BREAKS_PER_LOOP = 2
    Programs <- MCPrograms
    STACK = 48
    MAX_STEPS = 200
INVARIANTS ImageMeansProgram StackDiscipline RejectsExactly
\* A run ends.
CHECK_DEADLOCK FALSE
