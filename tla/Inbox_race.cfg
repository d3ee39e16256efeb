CONSTANTS
    k1 = k1  k2 = k2
    d1 = d1  d2 = d2  d3 = d3  d4 = d4  d5 = d5
    Keys <- MCKeys
    FixedKeys <- MCFixedKeys
    Deliveries <- MCDeliveries
    KeyOf <- MCKeyOf
    MaxDisturbances = 2
SYMMETRY DeliverySymmetry
SPECIFICATION Spec
CHECK_DEADLOCK FALSE
INVARIANTS
    NewOnce
