\* One bug and batches of two, one thing another user does in between, and every
\* failure; batches of two are confirmed.  Or two commands of `bug create` and
\* `template`, one after or beside the other, on one template.
SPECIFICATION MCWritesSpec
CONSTANTS
  Bugs = {1, 2}
  MaxItems = 2
  MaxAttachments = 1
  BatchThreshold = 1
  MaxOthers = 1
  Makers = {m1, m2}
  Orders <- MCOrders
  TemplateNames = {"t"}
  FirstTemplates <- MCFirstTemplates
  Buffers <- MCBuffers
  Declared = {"cf_a", "whiteboard", "groups"}
  Invalid = {"never", "bad"}
  MaxOrders = 2
INVARIANTS
  NothingUnreported CollisionBlocksBatch ReportTrue TagsNotOlder
  StdinWhole FiledAsAsked
\* The commands end.
CHECK_DEADLOCK FALSE
