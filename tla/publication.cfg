CONSTANTS
    Jobs = {j1, j2}
    AutoDispatch = {j1}
    Polled = {j1}
    Absent = Absent
    CatalogLimit = 1
    MaxFaults = 1
SPECIFICATION Spec
INVARIANTS BundlesOrdered CatalogWhole
PROPERTIES PublicNeverBack FilesCatchUp
