CONSTANTS
    Clients = {c1, c2}
    Absent = Absent
    Keep = Keep
    Titles = {t1, t2}
    Descriptions = {d}
    BadText = BadText
    Seeds = 1
    MaxTodos = 2
    Collections = {k1, k2}
    Uuids = {u1, u2}
    NotUuid = NotUuid
    Data = {{}, {f}}
    NoData = NoData
    PageLimit = 1
SPECIFICATION Spec
INVARIANTS TodosTypeOK  DocumentsTypeOK 
PROPERTIES TodosImplementStore GoneStaysGone DocumentsImplementStore
SYMMETRY Symmetry
CHECK_DEADLOCK FALSE
