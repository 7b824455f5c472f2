SPECIFICATION Spec
CONSTANTS
  explorer = explorer
  flyout = flyout
  edge = edge
  fake = fake
  s1 = s1
  n1 = n1
  Window <- MCWindow
  KindOf <- MCKindOf
  Typed <- MCTyped
  Slash <- MCSlash
  AnyText = AnyText
  MaxEvents = 3
CHECK_DEADLOCK FALSE
PROPERTY DroppedOnlyIfChanged
