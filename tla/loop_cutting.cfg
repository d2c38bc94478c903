CONSTANTS
  hookA = hookA  hookB = hookB  mailbox = mailbox  a = a  b = b  c = c
  Sources = {hookA, hookB, mailbox}
  Slugs = {a, b, c}
  NoSlug = NoSlug
  Leads <- Circles
  FirstSlugs <- Named
  MaxArrivals = 1
  MaxResends = 2
  MaxRenames = 1
SPECIFICATION Spec
INVARIANTS NoneReturns DropJustified
PROPERTIES Ends
CHECK_DEADLOCK FALSE
