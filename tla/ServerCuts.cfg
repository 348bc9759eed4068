\* A signal while a post is served.
SPECIFICATION Spec
CONSTANTS
    p1 = p1
    p2 = p2
    c1 = c1
    Posts = {p1}
    Calls = {c1}
    Load = 2
INVARIANTS
    PostsDrained
