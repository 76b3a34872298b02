SPECIFICATION Spec
INVARIANTS
    TypeOK
    RepliesReachCallers
    SessionsOfTheirPeers
    
    
    
    
    WaitsTakeTheirSignals
    
    CredentialsAnswer
    
    
    ImageOfOneLocation
    ClientsEnvIsCached
    
    OpensRunningModule
    ModuleOfItsProcess
    
    MetadataRead
    
CHECK_DEADLOCK FALSE
