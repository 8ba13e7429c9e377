SPECIFICATION Spec
CONSTANTS
    Calls <- MCCalls
    Depth = 4
    Scale = 7624512
INVARIANTS
    PackingIsSound
    
    
    RankingIsSound
    EvidenceIsSound
    
\* Each behaviour is one call: it stops when the call has returned.
CHECK_DEADLOCK FALSE
