CONSTANTS
  unset = unset
  absent = absent
  nobit = nobit
  Usages <- MCUsages
  NamesOf <- MCNamesOf
  NoBit = nobit
  Fields <- MCFields
  Unset = unset
  Absent = absent
  Invalid = Invalid
  Apps <- MCApps
  LowerCase <- MCLowerCase
  Boards <- MCBoards
  Nodes = {event3}
  Nobody = Nobody
  NoNode = NoNode
  Documents <- MCDocuments
  Requests <- MCRequests
  NoMatch = NoMatch
SPECIFICATION Spec
INVARIANTS
  AnswersAsConfigured
  SilentMappingsReported
PROPERTIES
  AddKeepsTheRest
