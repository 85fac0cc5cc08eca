SPECIFICATION Spec
CONSTANTS
    None = None
    Places <- MCPlaces
    SavedPlaces <- MCSavedPlaces
    MaxLaunches = 2
INVARIANTS
    TouchedIsSelected
