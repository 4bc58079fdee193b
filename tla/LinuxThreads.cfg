SPECIFICATION FairSpec
INVARIANT SectionsExclude
PROPERTIES AlarmsAreServed ShutsDown QuietAfterTerm
CHECK_DEADLOCK FALSE
