\* Three .gwf files, each with or without a file already at its .scs path,
\* and every way a translation can end.
CONSTANTS
  g1 = g1
  g2 = g2
  g3 = g3
  Gwfs <- MC_Gwfs
SPECIFICATION Spec
\* The builder stops once every file is translated.
CHECK_DEADLOCK FALSE
INVARIANT NoTemporaryLeft
