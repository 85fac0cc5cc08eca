SPECIFICATION ListsSpec
CHECK_DEADLOCK FALSE
CONSTANTS
    Names = {11, 12, 21, 61, 62}
    MaxLen = 5
    DishTypes = {"breakfast", "lunch", "dinner", "drinks", "snacks"}
    MaxDishes = 5
INVARIANTS
    RowsAreTheNames
    RowsAreDishes
