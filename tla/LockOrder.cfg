SPECIFICATION Spec
CONSTANTS
  a1 = a1
  a2 = a2
  h1 = h1
  Thread = {a1, a2}
  Client = Client
  App = App
  NoThread = NoThread
  Handler = {}
  Policies = {"Immediately", "LiveIndefinitely", "AfterChangesUploaded"}
  MaxVersion = 0
  Budget = 1
INVARIANT NoCircularWait
CHECK_DEADLOCK FALSE
