\* Two offers, a shutdown, sources and peers that come and go.
SPECIFICATION BridgeFairSpec
CONSTANT Offers = {o1, o2}
CHECK_DEADLOCK FALSE
INVARIANTS NoLeak CloseForgetsSeen
PROPERTY LostEndIsReleased
