CONSTANTS
    r1 = r1
    Rpc = {r1}
    Requests <- Reports
    Entered <- Texts
    MaxChanges = 1
    MaxFaults = 1
SPECIFICATION FairSpec
INVARIANTS TypeOK OneComponentPerKey AnsweredIsStored
PROPERTIES ReportIsStored 
