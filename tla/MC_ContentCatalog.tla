------------------------- MODULE MC_ContentCatalog -------------------------
EXTENDS ContentCatalog, TLC

CONSTANTS w1, w2, d1, d2, t1, x1

MCOneWorker == {w1}
MCWorkers == {w1, w2}
MCDomains == {d1, d2}
MCTemplates == {t1}
MCDescs == {x1}

MCSymmetry == Permutations(MCWorkers)
=============================================================================
