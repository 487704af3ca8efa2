SPECIFICATION FairClientSpec
CONSTANTS
    o1 = o1
    o2 = o2
    u1 = u1
    u2 = u2
    l1 = l1
    l2 = l2
    c1 = c1
    c2 = c2
    v1 = v1
    v2 = v2
    Null = Null
    Op = {o1, o2}
    Refused = {o2}
    User = {u1, u2}
    FirstUser = u1
    FirstCompany = c1
    Loop = {l1, l2}
    Company = {c1, c2}
    Module = {"dashboard", "invoices"}
    Tracked = {"invoices", "kpis"}
    FormOf <- FormOfOp
    Home = "invoices"
    Visit = {v1}
    Budget <- Budgets
INVARIANT DuplicatesExplained
INVARIANT AppliedInOrder
INVARIANT OwnRows
 
CHECK_DEADLOCK FALSE
