SPECIFICATION Spec
CONSTANTS
  a1 = a1
  a2 = a2
  h1 = h1
  Thread = {a1}
  Client = Client
  App = App
  NoThread = NoThread
  Handler = {h1}
  Policies = {"Immediately", "LiveIndefinitely", "AfterChangesUploaded"}
  MaxVersion = 1
  Budget = 2
INVARIANTS TypeOK SessionFitsState HandlersKept WaitingHasAsked HeldIsRegistered
PROPERTY DiesUploaded
CHECK_DEADLOCK FALSE
