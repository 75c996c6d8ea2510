SPECIFICATION PoliciesSpec
CHECK_DEADLOCK FALSE
PROPERTIES
  TaxonomyIsEditable
