\* Every order of registering up to three intervals.
SPECIFICATION Spec
CONSTANTS
  AddrSpace = 24
  MaxDevices = 3
  Ranges <- MCRanges
  AccessBytes = {1, 2, 4}
  NoRange = NoRange
INVARIANTS
  NoOverlap
  RefusalJustified
  RouteUnique
  AccessInsideDevice
PROPERTIES
  RegistrationKeepsRoutes
