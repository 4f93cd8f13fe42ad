CONSTANTS
  Sessions = {x1}
  Fds = {f1, f2, f3}
  None = None
  Httpd = Httpd
  Scheduler = Scheduler
SPECIFICATION FairSpec
INVARIANTS NoStaleSignIn NoteIsDue
PROPERTIES DepartureIsTold EndedIsCut
