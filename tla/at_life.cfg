SPECIFICATION FairSpec
CONSTANTS
  Main = Main
  Audio = Audio
  StopsAgain = FALSE
INVARIANTS TypeOK  FreedIsGone
PROPERTIES StopReturnsOnceStarted InitAndFreeReturn StartResumes
CHECK_DEADLOCK FALSE
