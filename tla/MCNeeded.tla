------------------------------ MODULE MCNeeded ------------------------------
(***************************************************************************)
(* The blobs that the rename tables and the fixups are about, two DSP and  *)
(* two executable blobs, and an excluded AIDL library.                     *)
(***************************************************************************)
EXTENDS TLC

Lib(n, needs) == [base |-> n, shape |-> "so", dsp |-> FALSE, needs |-> needs]
MCUniverse ==
  {Lib("libtensorflowlite_jni", {"libc"}), Lib("libai_tflite", {"libtensorflowlite_jni"}),
   Lib("libtensorflowlite_c", {"libc"}),
   Lib("libVoiceSdk", {"libtensorflowlite_c", "libgcc.so"}),
   Lib("libspukeymint", {"sharedsecret-V2", "keymint-V4"}),
   Lib("camx.device-impl", {"common-V5", "libtensorflowlite_c"}),
   [Lib("libdsp_skel", {"libgcc.so"}) EXCEPT !.dsp = TRUE],
   [Lib("qprof", {"libprof"}) EXCEPT !.shape = "bin"],
   [Lib("init.rc", {}) EXCEPT !.shape = "data"]}
MCSystemLibs == {"libc"}
MCExcluded == {"keymint-V4", "common-V5", "sharedsecret-V2"}
MCSource == {"keymint-V4", "common-V5", "libtensorflowlite_c", "libtensorflowlite_jni"}
MCDisable == {"camx.device-impl"}
MCRename == "libtensorflowlite_jni" :> "libtensorflowlite_jni_nubia_vendor"
MCSoname == "libtensorflowlite_c" :> "libtensorflowlite_c_vendor"
MCFixup  == MCRename
MCRemoved == {<<"libspukeymint", "sharedsecret-V2">>}
MCReplaced == {<<"libVoiceSdk", "libtensorflowlite_c", "libtensorflowlite_c_vendor">>}
MCWants == {<<"libai_tflite", "libtensorflowlite_jni">>, <<"libVoiceSdk", "libtensorflowlite_c">>}
=============================================================================
