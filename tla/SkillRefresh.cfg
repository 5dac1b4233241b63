SPECIFICATION Spec
CONSTANTS
    Workers = {w1}
    NoReq = NoReq
    MaxId = 2
    Scenes <- OneAgent
    MaxBinds = 1
    Configs = {k1}
    NoTest = NoTest
    Dirs = {d1}
INVARIANT BindingsResolve
