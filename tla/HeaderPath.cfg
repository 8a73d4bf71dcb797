SPECIFICATION Spec
CONSTANTS
    MaxConfigs = 2
    Directory <- MCDirectory
    Text <- MCText
    MarkedName = {"My_Fixture"}
    IndexWidth = 2
    Document <- MCDocument
    NoFile = "none"
    Requests <- MCRequests
    Environments <- MCEnvironments
    StartDirectory = "start"
    CommandLists <- MCCommandLists
    ParentDirectory <- MCParentDirectory
    NoDatabase = noDatabase
    Missing = {"gone"}
    Unwritable <- MCUnwritable
INVARIANT
    HeaderNamesInput
