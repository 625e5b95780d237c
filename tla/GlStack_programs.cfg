SPECIFICATION Spec
INVARIANTS DrawsReady VerdictTrue QuietTeardown ReportsTrue
CONSTANTS
  Apps <- MCApps
  Code <- MCCode
  Drivers = {"good", "forget", "unfinished", "detach"}
  Preloads = {"none", "gl-trace", "gl-fbo-trace", "finish", "nulltex", "stub", "real_detach"}
