CONSTANTS
  l0 = l0
  l1 = l1
  Links <- MC_Links
  ValidLinks <- MC_ValidLinks
  StrSizes <- MC_StrSizes
  n1 = n1
  Names <- MC_Names
  TemplateParams <- MC_TemplateParams
  MaxTemplateItems <- MC_MaxTemplateItems

SPECIFICATION Spec

INVARIANT TypeOK
INVARIANT BindingRoundTrip
INVARIANT IteratorDispatch
PROPERTY RaisingCallsLeaveMemory
