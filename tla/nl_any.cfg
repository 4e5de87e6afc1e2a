CONSTANTS
    i1 = i1
    i2 = i2
    i3 = i3
    head = head
    w1 = w1
    w2 = w2
    Item <- ThreeItems
    Anchor = head
    Walker <- OneWalker
    Removal = "any"
SPECIFICATION NotifySpec
INVARIANT NoFreedRead
