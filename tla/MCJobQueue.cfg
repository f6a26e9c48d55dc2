SPECIFICATION QSpec
CONSTANTS
  w1 = w1
  w2 = w2
  compile = compile
  rescan = rescan
  r1 = r1
  r2 = r2
  k1 = k1
  anything = anything
  NoKey = NoKey
  MaxRows = 3
  Worker <- MCWorker
  Kind <- MCKind
  Registered <- MCRegistered
  Resource <- MCResource
  Key <- MCKey
  Payload <- MCPayload
INVARIANTS QTypeOK OneInFlightPerResource SettledOnce StartOrder
PROPERTIES ImplementsLedger
