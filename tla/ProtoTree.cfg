CONSTANTS
  Schemas <- MCSchemas
  RootMessage = "AdJointLabeledLog"
  ActionTypes <- MCActionTypes
  UpperNames <- MCUpper
  Keys = {2, 9}
  Entries = {"detail"}
  None = None
SPECIFICATION Spec
INVARIANTS FieldsKept RepeatedBelowRepeated PathLeadsBack PathFound
