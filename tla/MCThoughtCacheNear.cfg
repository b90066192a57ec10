SPECIFICATION Spec
CONSTANTS
    f1 = f1
    f2 = f2
    f3 = f3
    v = v
    w = w
    NoAnswer = NoAnswer
    Form <- MCForm
    Value <- MCValue
    Program <- MCEveryProgram
    Capacity = {1}
PROPERTY
    ResolveReturns
