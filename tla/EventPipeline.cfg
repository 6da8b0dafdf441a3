SPECIFICATION Spec
CONSTANTS
    e1 = e1  e2 = e2  e3 = e3  e4 = e4  e5 = e5  p = p  q = q  r = r
    o1 = o1  o2 = o2  o3 = o3  o4 = o4  o5 = o5  w1 = w1  w2 = w2  Nil = Nil
    Events = {e1, e2, e3, e4, e5}  Objects = {p, q, r, o1, o2, o3, o4, o5}
    About <- TheAbout  Self <- TheSelf  Lineage <- TheLineage
    Watchers = {w1, w2}  Watched <- TheWatch
    Old = {}  Normal = {e2}  FilteredReason = {e3}  FilteredSource = {}
    Size = 3  BreadcrumbLimit = 2  MaxHandled = 5
INVARIANTS TypeOK BufferInv BufferIsHistory FilterReadsWindow
PROPERTIES CrumbsAreRecentHistory ImplementsWindow
CHECK_DEADLOCK FALSE
