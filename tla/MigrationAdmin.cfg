SPECIFICATION Spec
CONSTANTS
    m1 = m1
    m2 = m2
    m3 = m3
    Migrators = {m1, m2, m3}
    Release <- Releases
    Editions <- EditedRevision
    Databases <- EmptyOrAlpha
    None = None
INVARIANT AdministratorsProvision
