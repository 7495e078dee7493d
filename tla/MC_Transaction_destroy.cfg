\* Three caller variables, two ids: every failure path of
\* sc_transaction_new next to live and destroyed transactions.
CONSTANTS
  s1 = s1
  s2 = s2
  s3 = s3
  id1 = id1
  id2 = id2
  Slots <- MC_Slots
  Ids <- MC_Ids
SPECIFICATION Spec
\* The caller stops once every slot holds a destroyed transaction.
CHECK_DEADLOCK FALSE

PROPERTY DestroyReleasesAll
