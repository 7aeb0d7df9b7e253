--------------------------- MODULE SpeechSampleEntry ---------------------------
(***************************************************************************)
(* The MP4 parser's 3GPP2 speech sample entry (EVRC, EVRC-B, EVRC-WB,      *)
(* QCELP, SMV, VMR-WB) of src/fileformats/mp4/parser/src/                  *)
(* audiosampleentry.cpp, read from bytes written the way the composer      *)
(* writes them (src/fileformats/mp4/composer: PVA_FF_QcelpAtom and the     *)
(* fields of PVA_FF_QcelpSampleEntry).                                     *)
(*                                                                         *)
(* The file is a byte sequence: the sample entry at offset 0, followed by  *)
(* the next atom.  The parent has read the entry's header, so the parser   *)
(* starts at offset DEFAULT_ATOM_SIZE with the header's size and type.     *)
(* Positions are 0-based file offsets; reads are big-endian and fail at    *)
(* the end of the file.  The four-character codes are those of the 3GPP2  *)
(* file format (atomdefs.h is not in the repository).                      *)
(***************************************************************************)
EXTENDS Naturals, Sequences, SequencesExt

CONSTANT Inputs   \* the files the parser is run on (see EntryFile)

DEFAULT_ATOM_SIZE == 8
UNKNOWN_ATOM == 0

FourCC == [sevc |-> <<115,101,118,99>>,  secb |-> <<115,101,99,98>>,
           secw |-> <<115,101,99,119>>,  sqcp |-> <<115,113,99,112>>,
           ssmv |-> <<115,115,109,118>>, svmr |-> <<115,118,109,114>>,
           devc |-> <<100,101,118,99>>,  decb |-> <<100,101,99,98>>,
           decw |-> <<100,101,99,119>>,  dsmv |-> <<100,115,109,118>>,
           dvmr |-> <<100,118,109,114>>, dqcp |-> <<100,113,99,112>>,
           free |-> <<102,114,101,101>>]

(* Big-endian value of a byte sequence, and its inverse for width w.       *)
BigEndian(s) == FoldLeft(LAMBDA acc, b : acc * 256 + b, 0, s)
Bytes(n, w) == [i \in 1..w |-> (n \div 256^(w - i)) % 256]
Zeros(n) == [i \in 1..n |-> 0]
Code(name) == BigEndian(FourCC[name])
AtomHeader(size, name) == Bytes(size, 4) \o FourCC[name]

-----------------------------------------------------------------------------
(* Composer side.                                                          *)

(* PVA_FF_QcelpDescriptor: vendor (0), decoder_version (0) and            *)
(* frames_per_sample; getSize() is 6.                                      *)
QcelpDescriptorSize == 6

(* PVA_FF_QcelpAtom::recomputeSize: the default header plus the descriptor. *)
QcelpAtomSize == DEFAULT_ATOM_SIZE + QcelpDescriptorSize

(* PVA_FF_QcelpAtom::renderToFileStream: the atom header, then the         *)
(* descriptor's render32(vendor), render8(decoder_version) and             *)
(* render8(frames_per_sample).                                             *)
QcelpAtomRender(frames) ==
    AtomHeader(QcelpAtomSize, "dqcp") \o Bytes(0, 4) \o Bytes(0, 1) \o Bytes(frames, 1)

(* The decoder-specific boxes: dqcp as the composer renders it; devc and   *)
(* dvmr in the 3GPP2 layout the parser reads (vendor, decoder_version,     *)
(* [mode_set, media_sampling_frequency,] frames_per_sample).               *)
DecoderBox(box, frames) ==
    CASE box = "dqcp" -> QcelpAtomRender(frames)
      [] box = "devc" -> AtomHeader(14, "devc") \o Bytes(0, 4) \o Bytes(0, 1)
                            \o Bytes(frames, 1)
      [] box = "dvmr" -> AtomHeader(17, "dvmr") \o Bytes(0, 4) \o Bytes(0, 1)
                            \o Bytes(0, 2) \o Bytes(0, 1) \o Bytes(frames, 1)
      [] OTHER -> <<>>

TimeScaleWritten == 8000

(* The fixed fields after the header, as PVA_FF_QcelpSampleEntry declares  *)
(* them (SampleEntry's reserved 6 and data_reference_index 2, then         *)
(* reserved 8, 2, 2, 4, the sample rate timeScale << 16): 28 bytes.        *)
(* layout 26 stands for a writer that leaves out the sample rate's low     *)
(* half, which is what the parser's accounting assumes.                    *)
FixedFields(layout) ==
    Zeros(6) \o Bytes(1, 2) \o Zeros(16) \o Bytes(TimeScaleWritten, 2) \o Zeros(layout - 26)

(* An input: the entry type, its decoder box, the fixed-field layout, the  *)
(* frames_per_sample written, the size field (0: the true size) and the    *)
(* number of bytes cut from the end of the file.                           *)
EntryBody(in) == FixedFields(in.layout) \o DecoderBox(in.box, in.frames)
EntryEnd(in) == DEFAULT_ATOM_SIZE + Len(EntryBody(in))
SizeField(in) == IF in.size = 0 THEN EntryEnd(in) ELSE in.size
EntryFile(in) ==
    LET f == AtomHeader(SizeField(in), in.entry) \o EntryBody(in) \o AtomHeader(8, "free")
    IN SubSeq(f, 1, Len(f) - in.cut)

ASSUME \A in \in Inputs : SizeField(in) >= DEFAULT_ATOM_SIZE

-----------------------------------------------------------------------------
(* Parser side.                                                            *)

MimeTypes == {"EVRC", "EVRCB", "EVRCWB", "QCELP", "SMV", "VMRWB", "UNKNOWN"}

(* SpeechSampleEntry3GPP2::SetMimeType.                                    *)
SetMimeType(aBoxType) ==
    CASE aBoxType = "sevc" -> "EVRC"
      [] aBoxType = "secb" -> "EVRCB"
      [] aBoxType = "secw" -> "EVRCWB"
      [] aBoxType = "sqcp" -> "QCELP"
      [] aBoxType = "ssmv" -> "SMV"
      [] aBoxType = "svmr" -> "VMRWB"
      [] OTHER -> "UNKNOWN"

Fits(f, p, n) == p + n <= Len(f)
ReadAt(f, p, n) == BigEndian(SubSeq(f, p + 1, p + n))


(* end_of_atom: the position after the header plus the rest of the atom.   *)
EndOfAtom(pos, size) == pos + (size - DEFAULT_ATOM_SIZE)

DecFields == {"vendor", "decoder_version", "mode_set", "media_sampling_frequency",
              "frames_per_sample"}

(* The decoder-specific boxes read field by field, and the widths of the   *)
(* AtomUtils reads (read32, read8, read16).                                *)
EvrcBoxes == {Code("devc"), Code("decb"), Code("decw"), Code("dsmv")}
EvrcNames == <<"vendor", "decoder_version", "frames_per_sample">>
EvrcWidths_Read16 == <<4, 1, 2>>   \* variant: frames_per_sample by read16
EvrcWidths == <<4, 1, 1>>
VmrNames == <<"vendor", "decoder_version", "mode_set", "media_sampling_frequency",
              "frames_per_sample">>
(* Variant of VmrWidths that reads mode_set as one byte.                    *)
VmrWidths_ModeSet8 == <<4, 1, 1, 1, 1>>

VmrWidths == <<4, 1, 2, 1, 1>>

(* The nested reads of a decoder-specific box from p: each read happens    *)
(* only if the ones before it succeeded; _success only if all did.         *)
ReadBox(f, p, names, ws, dec) ==
    LET Off(i) == FoldLeft(LAMBDA a, b : a + b, 0, SubSeq(ws, 1, i))
        k == Max({i \in 0..Len(ws) : Fits(f, p, Off(i))})
    IN [ok  |-> k = Len(ws),
        pos |-> p + Off(k),
        dec |-> [x \in DOMAIN dec |->
                   IF \E i \in 1..k : names[i] = x
                   THEN LET i == CHOOSE i \in 1..k : names[i] = x
                        IN ReadAt(f, p + Off(i - 1), ws[i])
                   ELSE dec[x]]]

(* The box after the fixed fields: an EVRC-like or VMR box is read; any    *)
(* other atom is skipped by its size, and one shorter than a header fails. *)
DecoderSpecific(f, p, atomType, atomSize, dec) ==
    CASE atomType \in EvrcBoxes -> ReadBox(f, p, EvrcNames, EvrcWidths, dec)
      [] atomType = Code("dvmr") -> ReadBox(f, p, VmrNames, VmrWidths, dec)
      [] atomSize < DEFAULT_ATOM_SIZE -> [ok |-> FALSE, pos |-> p, dec |-> dec]
      [] OTHER -> [ok |-> TRUE, pos |-> p + (atomSize - DEFAULT_ATOM_SIZE), dec |-> dec]

(* The constructor SpeechSampleEntry3GPP2(fp, size, type), entered at the  *)
(* end of the header: skip 6, read16 data_reference_index, skip 16, read16 *)
(* _timeScale, counting the bytes in count; then, if count < size, the     *)
(* decoder-specific box, after which a failure or bytes left over (count   *)
(* < size) seek to end_of_atom and count as success.  getNextAtomType      *)
(* leaves UNKNOWN_ATOM and size 0 when it cannot read a header.            *)
SpeechSampleEntry3GPP2(f, size, type) ==
    LET p0 == DEFAULT_ATOM_SIZE
        end_of_atom == EndOfAtom(p0, size)
        p1 == p0 + 6
        driOk == Fits(f, p1, 2)
        p2 == IF driOk THEN p1 + 2 + 16 ELSE p1
        tsOk == driOk /\ Fits(f, p2, 2)
        p3 == IF tsOk THEN p2 + 2 ELSE p2
        count == DEFAULT_ATOM_SIZE + 6 + (IF driOk THEN 18 ELSE 0) + (IF tsOk THEN 2 ELSE 0)
        dec0 == [x \in DecFields |-> 0]
        hdrOk == Fits(f, p3, 8)
        atomSize == IF hdrOk THEN ReadAt(f, p3, 4) ELSE 0
        atomType == IF hdrOk THEN ReadAt(f, p3 + 4, 4) ELSE UNKNOWN_ATOM
        box == DecoderSpecific(f, IF hdrOk THEN p3 + 8 ELSE p3, atomType, atomSize, dec0)
        inBox == tsOk /\ count < size
        recover == inBox /\ (~box.ok \/ count < size)
        success == IF inBox THEN box.ok \/ recover ELSE tsOk
    IN [success   |-> success,
        pos       |-> CASE recover -> end_of_atom [] inBox -> box.pos [] OTHER -> p3,
        mime      |-> SetMimeType(type),
        dri       |-> IF driOk THEN ReadAt(f, p1, 2) ELSE 0,
        timeScale |-> IF tsOk THEN ReadAt(f, p2, 2) ELSE 0,
        dec       |-> IF inBox THEN box.dec ELSE dec0,
        error     |-> IF success THEN "none" ELSE "READ_3GPP2_SPEECH_SAMPLE_ENTRY_FAILED"]

-----------------------------------------------------------------------------
(* The parser run once on one input file.                                  *)

VARIABLES
    in,        \* the input: the file and the header the parent read
    parsed,    \* the constructor has returned
    entry      \* the SpeechSampleEntry3GPP2 it left, and the file position

vars == <<in, parsed, entry>>

Init ==
    /\ in \in Inputs
    /\ parsed = FALSE
    /\ entry = SpeechSampleEntry3GPP2(<<>>, DEFAULT_ATOM_SIZE, in.entry)

Construct ==
    /\ ~parsed
    /\ parsed' = TRUE
    /\ entry' = SpeechSampleEntry3GPP2(EntryFile(in), SizeField(in), in.entry)
    /\ UNCHANGED in

Spec == Init /\ [][Construct]_vars

-----------------------------------------------------------------------------
(* Properties.                                                             *)

TypeOK ==
    /\ parsed \in BOOLEAN
    /\ entry.success \in BOOLEAN /\ entry.pos \in Nat
    /\ entry.mime \in MimeTypes
    /\ entry.dri \in 0..65535 /\ entry.timeScale \in 0..65535
    /\ entry.dec.decoder_version \in 0..255
    /\ entry.dec.frames_per_sample \in 0..255
    /\ entry.dec.media_sampling_frequency \in 0..255
    /\ entry.dec.mode_set \in 0..65535

(* A whole entry laid out as the constructor reads it (26 bytes of fixed   *)
(* fields before the decoder-specific box) is accepted and read back as    *)
(* written: data_reference_index and the time scale from the fixed fields, *)
(* and, through the nested AtomUtils reads at their own widths, the        *)
(* frames_per_sample of an EVRC-like or VMR box.                           *)
ReadsBackWhatWasWritten ==
    (parsed /\ in.layout = 26 /\ in.cut = 0) =>
        /\ entry.success
        /\ entry.dri = 1
        /\ entry.timeScale = TimeScaleWritten
        /\ in.box \in {"devc", "dvmr"} => entry.dec.frames_per_sample = in.frames

(* An EVRC-like or VMR entry written whole is read back with the           *)
(* frames_per_sample its decoder-specific box holds.                       *)
DecoderConfigRecovered ==
    (parsed /\ entry.success /\ in.box \in {"devc", "dvmr"} /\ in.cut = 0)
        => entry.dec.frames_per_sample = in.frames
====
