SPECIFICATION SwitchSpec
CONSTANTS
    Last = 2
    g_stack_size = 21
    StackUse = 2
    Seeds = {1}
INVARIANT
    SwitchTypeOK
PROPERTIES
    WritesStayHome
    ImplementsContexts
