CONSTANTS
    Packets = {}
    Dns = {}
    Controls = {c}
    Mains = {}
    Uids = {u}
    Addresses = {a}
    MaxResets = 1
    MaxChanges = 2
SPECIFICATION Spec
INVARIANTS NoPackageAppAcrossReset
