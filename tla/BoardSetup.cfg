CONSTANTS
    Calls = {c1, c2}
    Stmts = 2
    Rest = Rest
    None = None
    Projects = {p, q}
    Goals = {g}
    Reqs = {r1, r2, r3}
    Absent = Absent
SPECIFICATION FairSpec
INVARIANTS
    TypeOK
    SchemaComplete
    OneStore
    KeysNeverClash
    TasksInTheirProject
PROPERTY CallsAnswered
