SPECIFICATION Spec
CONSTANTS
    None = None
    Draft = Draft
    d1 = d1
    d2 = d2
    Dishes <- MCDishes
    Numbers <- MCNumbers
    MaxVisits = 2
    MaxSetups = 2
    MaxOrders = 1
    MaxBlocks = 2
SYMMETRY DishSymmetry
INVARIANTS SavedOrdersHaveTheirKeys
