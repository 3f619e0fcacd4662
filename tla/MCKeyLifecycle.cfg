CONSTANTS
    k1 = k1
    k2 = k2
    r1 = r1
    r2 = r2
    r3 = r3
    Requests = {r1, r2, r3}
    Keys = {k1, k2}
    Settings = {"benchmark_mode", "cache_ttl"}
    Numbers = {"cache_ttl"}
    Provisioned = {k1}
    MaxFaults = 2

SYMMETRY Symmetry

SPECIFICATION Spec

INVARIANTS
    TypeOK
    EveryRowIsUsable
    SettingsAgree
    NoKeyWithoutRow
    RefusedCreationIsUndone

CHECK_DEADLOCK FALSE
