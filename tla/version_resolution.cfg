SPECIFICATION FairSpec
CONSTANTS
  Resolvers = {r1, r2}
  Consumers = {c1}
  ReleaseOf <- MCReleaseOf
  Minor <- MCMinor
  Published <- MCPublished
  Upcoming <- MCUpcoming
  Rules <- MCRules
  MaxGen = 2
  MaxFaults = 1
INVARIANTS TypeOK StatusNotBehind AppliedWasResolved RejectionHasReason
PROPERTIES ReleaseArrives
