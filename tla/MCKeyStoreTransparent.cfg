CONSTANTS
    k1 = k1  k2 = k2  i1 = i1  i2 = i2  s1 = s1  s2 = s2  seed1 = seed1  seed2 = seed2
    z1 = z1  K1 = K1  K2 = K2  a1 = a1  a2 = a2  a3 = a3  p1 = p1  p2 = p2
    NoKey = NoKey
    PrivKeys <- MCPrivKeys
    KeyIds <- MCKeyIds
    KeyIdOf <- MCKeyIdOf
    Scripts <- MCScripts
    ScriptSize <- MCScriptSize
    MaxScriptSize <- MCMaxScriptSize
    Seeds <- MCSeeds
    SproutAddrs <- MCSproutAddrs
    SaplingKeys <- MCOneKey
    Addrs <- MCOneAddr
    Owner <- MCOwner
    DefaultAddr <- MCDefaultAddr
    Paths <- MCOnePath
    DivPath <- MCDivPath
    IvkBindings <- MCHonestBindings
SPECIFICATION Spec

INVARIANT SproutKeysDecryptable
PROPERTIES NoKeyMaterialLost KeyStoreRefines
