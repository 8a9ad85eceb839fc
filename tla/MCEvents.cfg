CONSTANTS
    ann = ann  bob = bob  a = a  e1 = e1  k1 = k1
    Null = null
    Users = {ann, bob}
    Slugs = {a, b}
    EventIds = {e1, e2}
    Keys = {k1, k2, k3}
    Forms = {"edited"}
    Handlers = {h1, h2}
    Plans <- Everything
SYMMETRY Symmetry
SPECIFICATION Spec
INVARIANTS TypeOK BannerServable CreatorManages ReadableIsListed
PROPERTIES FormSparesLifecycle OutsidersChangeNothing
CHECK_DEADLOCK FALSE
