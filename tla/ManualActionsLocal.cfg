SPECIFICATION Spec
CONSTANTS
    api = api
    collector = collector
    kept = kept
    withdrawn = withdrawn
    own = own
    None = None
    Proc = {api, collector}
    Api = {api}
    Action = {kept, withdrawn, own}
    Delivery <- MCDelivery
    Version <- MCVersion
    MaxEdits = 2
    MaxCrashes = 1
PROPERTIES
    LocalChangesSurvive
