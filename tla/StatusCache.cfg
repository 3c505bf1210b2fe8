\* One session; Many is more than what can be told apart of pending causes.
SPECIFICATION Spec
CONSTANTS
    Sessions = {s}
    Fanout = 1
    Many = 3
INVARIANTS TypeOK
  
