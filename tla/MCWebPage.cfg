SPECIFICATION PatientSpec
CONSTANTS
    old = old
    new = new
    a = a
    b = b
    all = all
    some = some
    Snapshots = {old, new}
    Objects = {a, b}
    Searches = {all, some}
    Found <- AllFound
    PageSize = 1
    First = old
    Captured = {new}
    NoObject = NoObject
    NoLineage = NoLineage
    MaxCalls = 2
INVARIANTS ListIsOfTheSearch LineageIsOfTheSnapshot
