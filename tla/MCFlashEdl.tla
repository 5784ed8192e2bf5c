----------------------------- MODULE MCFlashEdl -----------------------------
EXTENDS FlashEdl

MCImages == <<"boot_a", "init_boot_a", "vendor_boot_a", "dtbo_a", "vbmeta_a",
              "vbmeta_system_a", "super">>
\* Complete, and as a build that made no dtbo image left it.
MCPackages == {ToSet(MCImages) \ {"super"}, ToSet(MCImages) \ {"super", "dtbo_a"}}
MCErased == <<"userdata", "metadata">>
=============================================================================
