\* Two browsers create two documents; both may have been answered.
SPECIFICATION RegistrySpec
CONSTANTS
  Doc = {notes, todo}  Database = {1, 2}  Creation = {1, 2}
INVARIANT CreatedPersists
