CONSTANTS
    update_workflow = update_workflow
    update_object = update_object
    bulk_update = bulk_update
    amount = amount
    jobtitle = jobtitle
    Unset = Unset
    Malformed = Malformed
    Infinite = Infinite
    ShippedMax = 2
    ShippedTTL = 7
    Tools <- MCTools
    Properties <- MCProperties
    ShippedNeverAuto <- MCShippedNeverAuto
    ShippedSensitive <- MCShippedSensitive
    GlobalFiles <- MCGlobalFiles
    PortalFiles <- MCPortalFiles
    Previews <- MCPreviews
    PatternTools <- MCPatternTools
    ListTools <- MCListTools
SPECIFICATION Spec
INVARIANTS
    AutoIsSafe

    
