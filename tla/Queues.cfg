\* One message in each queue, each with two tries.
CONSTANTS
    Customers = {u1}
    Targets = {t1}
    Sales = {s1}
    Orders = {o1}
    MaxEdits = 2
    MaxTries <- Tries
SPECIFICATION FairSpec
INVARIANTS TypeOK  EditsAreAnswered
PROPERTY QueuesDrain
