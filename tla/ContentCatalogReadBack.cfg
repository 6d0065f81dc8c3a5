CONSTANTS
    w1 = w1
    w2 = w2
    d1 = d1
    d2 = d2
    t1 = t1
    x1 = x1
    Nil = Nil
    Workers <- MCOneWorker
    Domains <- MCDomains
    Templates <- MCTemplates
    Descs <- MCDescs
    MaxSites = 2
    MaxTenants = 1
SPECIFICATION CatalogSpec
INVARIANTS
    WriteReadBack
