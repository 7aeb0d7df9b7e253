------------------------ MODULE MC_SpeechSampleEntry ------------------------
(* Inputs for the 3GPP2 speech sample entry parser: every entry type with  *)
(* each decoder-specific box, frames_per_sample 1 or 10, files cut inside  *)
(* the fixed fields, inside the box header and inside the box.             *)
EXTENDS SpeechSampleEntry

Entries == {"sevc", "secb", "secw", "sqcp", "ssmv", "svmr"}
Boxes == {"devc", "dvmr", "dqcp", "none"}

InputsFor(layouts, sizes, cuts) ==
    [entry : Entries, box : Boxes, layout : layouts, frames : {1, 10},
     size : sizes, cut : cuts]

(* Files laid out as the composer's sample entry declares (28 bytes after  *)
(* the header), cut at their end, inside the box or inside the fixed part. *)
MC_Written == InputsFor({28}, {0}, {0, 3, 12, 30})

(* Files laid out as the parser reads them (26 bytes after the header).    *)
MC_ParserLayout == InputsFor({26, 28}, {0}, {0, 3, 12, 30})

(* Entries whose size field is smaller than the fixed fields.              *)
MC_ShortSize == InputsFor({28}, {20}, {0})
====
