CONSTANTS
  item1 = item1
  item2 = item2
  call1 = call1
  call2 = call2
  NoItem = NoItem
  Items = {item1, item2, call1, call2}
  KindOf <- MCKindOf
  MaxFrags = 2
SPECIFICATION Spec
SYMMETRY Sym
INVARIANTS StrictClientAccepts ContentDeliveredOnce CacheOnlySealed
