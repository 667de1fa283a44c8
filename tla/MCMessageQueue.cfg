CONSTANTS
  Items = {a, b}
  Capacity = 3
  Consumers = {c1, c2}
  Nothing = Nothing
SPECIFICATION Spec
INVARIANTS Window SignalsCoverItems
PROPERTIES ImplementsFifo BlockedConsumerServed
