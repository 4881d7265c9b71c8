CONSTANTS
    Tenants <- TheTenants
    Home = "super"
    Docs = {"d1", "d2", "bad"}
    Valid = {"d1", "d2"}
    NoSchema = NoSchema
    NoData = NoData
    SchemaMode <- TheModes
    None = None
    Relations <- TheRelations
    Permissions <- ThePermissions
    Names <- TheNames
    Words <- TheWords
    Filtered <- TheFiltered
    PageSize = 1
    OldEntries = 2
    MaxLog = 5
    Budgets <- TheBudgets
    Loaded <- TheLoaded

SPECIFICATION Spec

INVARIANTS
    SelectedExists
    FormFitsSchema
    ScreenIsCurrent
    ReadsOn
    ReadsMatchChecks
    DecisionIsOfLastCheck

CHECK_DEADLOCK FALSE
