SPECIFICATION Spec
CONSTANTS
    p1 = p1  p2 = p2  p3 = p3
    a = a  b = b
    o1 = o1  o2 = o2  o3 = o3  o4 = o4
    n0 = n0  n1 = n1  n2 = n2
    h1 = h1  h2 = h2
    Nil = Nil
    Root = n0
    Op = {p1, p2}
    Fid = {a, b}
    Obj = {o1, o2, o3, o4}
    Node = {n0, n1, n2}
    Handle = {h1, h2}
    MaxFids = 2
    MaxXattr = 1
    Requests = {"walk", "clone", "clunk"}
SYMMETRY Symmetry
INVARIANTS
    RefsExact
    BoundNodeOpenUnlessRaced
    
