SPECIFICATION Spec
INVARIANTS OwnLibrary
CONSTANTS
  Threads = {t1, t2}
  egl = egl gles2 = gles2 cm = cm vg = vg gl = gl
  Sonames = {egl, gles2, cm, vg, gl}
  Preload <- MCPreload
  MAX_LIBS = 4
  MaxCalls = 3
CHECK_DEADLOCK FALSE
