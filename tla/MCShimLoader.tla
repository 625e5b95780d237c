---------------------------- MODULE MCShimLoader ----------------------------
(***************************************************************************)
(* An instance of ShimLoader for TLC: PRELOAD[] is libEGL and libGLESv2.   *)
(***************************************************************************)
EXTENDS ShimLoader

CONSTANTS egl, gles2, cm, vg, gl

MCPreload == <<egl, gles2>>
=============================================================================
