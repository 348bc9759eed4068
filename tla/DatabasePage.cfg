\* A gauge under the name of a counter.
SPECIFICATION Spec
CONSTANTS
    hits = hits
    load = load
    c1 = c1
    c2 = c2
    Ids = {hits, load}
    Limit = 2
    Other = Other
    NoRow = NoRow
    Clients = {c1, c2}
    Batches <- Mixed
    Nobody = Nobody
INVARIANTS
    PageIsServed
