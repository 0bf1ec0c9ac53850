CONSTANTS
    Slot = {29, 66, 114}
    MaxInts = 10
    MaxFps = 10
    Decl <- MCDecl
    Watched <- MCWatched
    NoMethod = NoMethod
SPECIFICATION JSpec
INVARIANTS
    JTypeOK
    CallRouted
    

    
