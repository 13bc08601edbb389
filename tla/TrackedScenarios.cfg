CONSTANTS
  r1 = r1
  r2 = r2
  t1 = t1
  t2 = t2
  c1 = c1
  NoRun = NoRun
  Mqtt = Mqtt
  Runs = {r1, r2}
  Threads = {t1, t2}
  Streams = {c1}
  Uploads <- MCUploads
SPECIFICATION Spec
SYMMETRY Symmetry
INVARIANTS
  TypeOK
  CaptureKept
  DeletedOnce
  OkMeansDone
