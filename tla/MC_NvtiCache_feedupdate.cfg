CONSTANTS
    None = None
    NoCall = NoCall
    F1 = F1
    F2 = F2
    Oids = {o1}
    Feeds = {F1, F2}
    RecordOf <- MCRecordOf
    PrefsOf <- MCPrefsOf
    MaxReloads = 2

SPECIFICATION Spec

INVARIANT ParamsLinearizable
