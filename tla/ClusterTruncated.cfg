SPECIFICATION Spec
CONSTANTS
    Width = 3
    Adders = {a1}
    Removers = {}
    Names = {1, 2, 3}
    Keys = {k1, k2, k3}
    Ids = {i1, i2, i3}
    NetworkAddress = 5
    NetworkBits = 1
    SubnetBits = 2
    MaxTruncated = 1
    MaxFailed = 1
INVARIANT UniqueSubnets
