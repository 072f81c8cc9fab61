\* Readers of data that changes, one component in each behaviour.
SPECIFICATION Spec
CONSTANTS
    None = None
    Words = {"S", "SS"}
    Grades <- FewGrades
    Species = {"Caridina", "Caridina sp."}
    Like <- BeginsWith
    Colors = {"red", "blue"}
    MaxPrice = 2
    MaxStock = 1
    Entries <- SomeEntries
    Queries <- SomeQueries
    MaxRows = 2
    Limit = 2
    PagedEntries <- TwoEntries
    PagedQueries <- FewQueries
    PagedRows = 3
    PageSize = 1
    Orders = {o1, o2, o3}
    Statuses = {"processing", "shipped"}
    MaxLeft = 2
    Sales = {s1}
    Pages = {p1, p2}
    RoleOf <- EveryoneIsOwner
    MaxTries = 3
    LastDay = 4
    DayLength <- Changing
    Days = 2
    MaxLedger = 3
INVARIANTS TypesOK FiltersAgree PagesShowTheList OrdersAreShown NothingMissed DashboardCoversItsDays
