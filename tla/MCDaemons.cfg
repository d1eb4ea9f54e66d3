CONSTANTS
  Procs = {p1, p2, p3}
  Nobody = Nobody
  Keys = {k1}
SPECIFICATION FairSpec
INVARIANTS ListensWithDatabase OneDaemonUnlessStopping ReportedKeysUsable
PROPERTIES ProcessSettles
CHECK_DEADLOCK FALSE
