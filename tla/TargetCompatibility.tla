------------------------ MODULE TargetCompatibility ------------------------
(***************************************************************************)
(* Which file a target takes, and what must happen to it first: the matrix *)
(* of forge/target-compatibility.ts, the pairs the converters implement,   *)
(* and the decision taken when a conversion is done (routePostConvert).    *)
(*                                                                         *)
(* Target kinds the matrix treats alike are one kind here: "klipper" is    *)
(* fdm_klipper and fdm_octoprint, "arco" the fdm_klipper_* models,         *)
(* "bambu_lan" fdm_bambu_lan, "bambu" the bambu_* models, "sdcp" resin_sdcp,*)
(* "chitu_jxs" the GKtwo, "chitu_legacy" the old Elegoos, "resin" the other*)
(* sdcp_* and chitu_network_* models, "orca" the three big slicers, "cura" *)
(* itself, "chitubox" that and lychee.                                     *)
(***************************************************************************)
EXTENDS Naturals, Sequences

PrinterKinds == {"klipper", "arco", "bambu_lan", "bambu", "sdcp", "chitu_jxs",
                 "chitu_legacy", "resin"}
SlicerKinds  == {"orca", "cura", "chitubox"}
TargetKinds  == PrinterKinds \cup SlicerKinds

Meshes      == {"stl", "3mf", "obj", "fbx", "glb", "gltf", "ply", "step", "stp", "amf"}
Archives    == {"zip", "rar", "7z"}
Images      == {"jpeg", "jpg", "png", "webp"}
Documents   == {"pdf", "txt", "md"}
ResinSliced == {"ctb", "cbddlp", "jxs", "goo", "photon", "pwmx", "pwmo"}
GcodeFormats == {"gcode", "bgcode"}
Formats == Meshes \cup Archives \cup Images \cup Documents \cup ResinSliced
             \cup GcodeFormats \cup {"gcode.3mf"}

NoFormat == "none"        \* no file, or no conversion target

\* What each kind takes without conversion (NATIVE_FORMATS).
Native ==
  [klipper      |-> {"gcode"},
   arco         |-> {"gcode"},
   bambu_lan    |-> {"gcode", "3mf"},
   bambu        |-> {"gcode.3mf", "3mf"},
   sdcp         |-> ResinSliced \ {"jxs"},
   chitu_jxs    |-> {"ctb", "jxs"},
   chitu_legacy |-> {"ctb", "cbddlp"},
   resin        |-> {"ctb"},
   orca         |-> {"stl", "3mf", "obj", "step", "stp", "amf", "gcode"},
   cura         |-> {"stl", "3mf", "obj", "amf"},
   chitubox     |-> {"stl", "3mf", "obj"}]

\* What a format is said to convert to, best first (CONVERSION_PATHS).
ConversionPaths(f) ==
  CASE f \in {"fbx", "glb", "gltf", "ply", "obj"} -> <<"stl">>
    [] f = "stl"                                  -> <<"3mf", "gcode">>
    [] f \in {"3mf", "step", "stp", "amf"}        -> <<"stl", "gcode">>
    [] OTHER                                      -> <<>>

\* The pairs the matrix rejects with a reason (UNSUPPORTED_REASONS).
Rejected(f, k) ==
  \/ f \in Images \cup Documents
  \/ f \in ResinSliced \ {"ctb", "jxs"}
  \/ f = "gcode" /\ k \in {"bambu", "sdcp", "chitu_jxs", "chitu_legacy", "resin"}
  \/ f = "ctb" /\ k \in {"klipper", "bambu_lan", "orca", "cura"}

\* The first path that ends in a format the kind takes.
FindConversionTarget(f, k) ==
  LET paths == ConversionPaths(f)
      ends  == {i \in DOMAIN paths : paths[i] \in Native[k]}
  IN  IF ends = {} THEN NoFormat
                   ELSE paths[CHOOSE i \in ends : \A e \in ends : i <= e]

\* getCompatibility, in the order of its rules: the format to convert to, and
\* the verdict's band.
ConversionTo(f, k) ==
  CASE f \in Native[k] \/ f \in Images -> NoFormat
    [] f \in Archives                  -> "archive-extract"
    [] Rejected(f, k)                  -> NoFormat
    [] OTHER                           -> FindConversionTarget(f, k)

Band(f, k) == CASE f \in Native[k]              -> "native"
                [] ConversionTo(f, k) # NoFormat -> "conversion-required"
                [] OTHER                        -> "unsupported"

-----------------------------------------------------------------------------

\* SUPPORTED_BLENDER_PAIRS, and the one thing an archive converts to.
Convertible(f, to) ==
  \/ f \in Archives /\ to = "archive-extract"
  \/ <<f, to>> \in {<<"stl", "3mf">>, <<"3mf", "stl">>, <<"obj", "stl">>,
                    <<"fbx", "stl">>, <<"glb", "stl">>}

\* pickUsableFromArchive: a file the matrix does not reject for the target.
Usable(f, k) == Band(f, k) # "unsupported"

\* mapPrinterKindToSlicerKind: the printers the slicer worker slices for.
Sliceable(k) == k \in {"klipper", "bambu_lan"}

\* Where a job goes with the file it has now.
RoutePostConvert(f, k) ==
  CASE k \in SlicerKinds             -> "claimable"
    [] f \in GcodeFormats            -> "claimable"
    [] f \in Native[k]               -> "claimable"
    [] ConversionTo(f, k) = "gcode"  -> "slicing"
    [] OTHER                         -> "failed"
=============================================================================
