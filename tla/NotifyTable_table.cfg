SPECIFICATION Spec
CONSTANTS
  a = a
  b = b
  d = d
  e = e
  f = f
  g = g
  h = h
  op1 = op1
  p1 = p1
  AnyOp = AnyOp
  Regs = {a, b, d, e}
  Ops = {op1}
  Op <- Where
  Func <- Which
  Code <- OwnCode
  Pushes = {p1}
  PushOp <- Push1
INVARIANTS
  OffIsFinal
  NothingLeaks
  EveryoneServed
