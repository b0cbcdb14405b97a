SPECIFICATION Spec
CONSTANTS
  a = a
  b = b
  x = x
  y = y
  z = z
  Person = Person
  Employee = Employee
  Organization = Organization
  Place = Place
  None = None
  Unbound = Unbound
  Type = "type"
  Class = "person"
  Schema <- MCSchema
  Graphs <- SmallGraphs
  Filters <- LinkFilters
  SortKeys <- MCSortKeys
  Builders <- AllBuilders
  MaxFilters = 2
  MaxSortKeys = 1
  MaxPage = 1
  MaxSettings = 2
INVARIANT MissingLinksMean
