CONSTANTS
    i1 = i1
    i2 = i2
    i3 = i3
    head = head
    w1 = w1
    w2 = w2
    Item <- ThreeItems
    Anchor = head
    Walker <- TwoWalkers
    Removal = "self"
SPECIFICATION NotifySpec
INVARIANT LinksSound
INVARIANT NoFreedRead
INVARIANT CalledOnce
PROPERTY EmissionEnds
