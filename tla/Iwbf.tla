-------------------------------- MODULE Iwbf ----------------------------------
(***************************************************************************)
(* The IWBF executable format of kernel/format/iwbf.c.  An image is a      *)
(* record of what its bytes say when they are read where the format puts   *)
(* the fields: magic, type, arch, entry, segment_count, and table, the     *)
(* segment headers from the end of the header on.  The table goes on       *)
(* behind the image's size: there it is what the memory behind it holds.   *)
(* Sizes and offsets are counted in units, so many of which are a page;    *)
(* the unit at offset k of the image has the value Unit(image, k).         *)
(***************************************************************************)
EXTENDS Integers, Sequences

CONSTANTS
  PAGE_UNITS,               \* units of a page
  IWBF32_HDR_SIZE,          \* units of the header and of a segment header
  IWBF32_SEGMENT_HDR_SIZE,
  UINT16                    \* a 16-bit read counts modulo this

ASSUME IwbfAssumption ==
  /\ PAGE_UNITS \in Nat \ {0} /\ UINT16 \in Nat \ {0}
  /\ IWBF32_HDR_SIZE \in Nat \ {0} /\ IWBF32_SEGMENT_HDR_SIZE \in Nat \ {0}

IWBF_SEG_FLAG_READ == "R"
IWBF_SEG_FLAG_WRITE == "W"
IWBF_SEG_FLAG_EXEC == "X"
Permissions == {IWBF_SEG_FLAG_READ, IWBF_SEG_FLAG_WRITE, IWBF_SEG_FLAG_EXEC}

(* struct iwbf32_segment_hdr and struct iwbf32_hdr; that magic, type and   *)
(* arch have the one value that is accepted is a Boolean each.             *)
SegmentHdr == [vaddr : Nat, file_off : Nat, file_size : Nat, mem_size : Nat,
               flags : SUBSET STRING]
Header == [magic : BOOLEAN, type : BOOLEAN, arch : BOOLEAN, entry : Nat, segment_count : Nat]

IsImage(image) ==
  /\ [field \in {"magic", "type", "arch", "entry", "segment_count"} |-> image[field]] \in Header
  /\ image.table \in Seq(SegmentHdr) /\ image.size \in Nat
  /\ image.segment_count % UINT16 <= Len(image.table)

Unit(image, k) == <<image.id, k>>

(* The header has a 32-bit segment_count of which 16 bits are read.        *)
SegmentCount(image) == image.segment_count % UINT16

iwbf_parse_hdr(image) ==
  /\ image.size >= IWBF32_HDR_SIZE
  /\ image.magic /\ image.type /\ image.arch
  /\ SegmentCount(image) # 0

iwbf_parse_segment_hdr_NoSize(seg, size) ==
  /\ seg.mem_size >= seg.file_size
  /\ seg.flags \cap Permissions # {}
  /\ seg.flags \subseteq Permissions

(* size is what the caller says is left from the segment header on.        *)
iwbf_parse_segment_hdr(seg, size) ==
  /\ size >= IWBF32_SEGMENT_HDR_SIZE
  /\ seg.mem_size >= seg.file_size
  /\ seg.flags \cap Permissions # {}
  /\ seg.flags \subseteq Permissions
=============================================================================
