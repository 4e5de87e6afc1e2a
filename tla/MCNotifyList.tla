---------------------------- MODULE MCNotifyList ----------------------------
(* Small instances of NotifyList for TLC.                                  *)
EXTENDS NotifyList

CONSTANTS i1, i2, i3, head, w1, w2

ThreeItems == {i1, i2, i3}
OneWalker == {w1}
TwoWalkers == {w1, w2}
=============================================================================
