CONSTANTS
  c1 = c1
  c2 = c2
  first = first
  second = second
  absent = absent
  junk = junk
  Checkout = {c1, c2}
  Publishers = {c1, c2}
  Declared = {"src"}
  Extra = {"h", "g"}
  Outputs <- Order
  Contents <- Pairs
  Holds <- HoldsApart
  Mentions <- MentionsOne
  Dets = {first, second}
  Units <- MainKinds
  Breaks = {"h1"}
  Absent = absent
  Junk = junk
  Disturbances <- All
  MaxEvents = 2
SPECIFICATION Spec
SYMMETRY Alike
INVARIANTS HitIsFresh Honest NextRunSkips PublishedIsServed
