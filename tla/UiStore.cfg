SPECIFICATION FairSpec
CONSTANTS
  Slots = {s1, s2}
  Undefined = undefined
  Id = e1
  PageSize = 1
  Total = 3
  MaxVersion = 1
  Followed = {"querySimilar", "queryEntitySetItems", "queryCollections", "queryEntitySets", "queryMappings", "queryRoles", "queryNotifications", "queryBookmarks"}
INVARIANTS TypeOK PagesContiguous PendingHasRequest
PROPERTIES ResultSettles ImplementsLifecycle
CHECK_DEADLOCK FALSE
