------------------------------- MODULE FileType ------------------------------
(***************************************************************************)
(* The upload gateway's check of a file by its content (filetype.ts).  A   *)
(* file is [magic, bytes, large, broken]: the magic bytes it starts with,  *)
(* its bytes by class when it has none, whether it is an image wider than  *)
(* the limit, and whether the image cannot be decoded.                     *)
(***************************************************************************)
EXTENDS Naturals, Sequences

CONSTANT SampleBytes   \* how much of a text is looked at (8192 in the code)

ASSUME FileTypeAssumption == SampleBytes \in Nat \ {0}

\* A zero byte, an ASCII byte, the first byte of a character of two, three or
\* four bytes, and one that continues a character.
ByteClasses == {"zero", "ascii", "lead2", "lead3", "lead4", "more"}
Leads == {"lead2", "lead3", "lead4"}

Width(b) == CASE b = "lead2" -> 2 [] b = "lead3" -> 3 [] b = "lead4" -> 4
              [] b = "more" -> 0 [] OTHER -> 1

\* UTF-8 as the decoder reads it: whole characters, one after another.
Decodes(bytes) ==
  LET from[i \in 1..(Len(bytes) + 1)] ==
        \/ i > Len(bytes)
        \/ LET w == Width(bytes[i])
           IN /\ w > 0 /\ i + w - 1 <= Len(bytes)
              /\ \A k \in (i + 1)..(i + w - 1) : bytes[k] = "more"
              /\ from[i + w]
  IN from[1]

\* Slip: a cut character stays.
TrimNothing(sample, fullLength) == sample

\* A sample that is cut is looked at backwards, three bytes at most: up to the
\* byte a character starts with, which is dropped with what follows it, or to
\* an ASCII byte.
TrimPartialCodePoint(sample, fullLength) ==
  LET end == Len(sample)
      Stops(i) == sample[end + 1 - i] # "more"
      back == {i \in 1..3 : i <= end /\ Stops(i) /\ \A k \in 1..(i - 1) : ~ Stops(k)}
  IN IF end = fullLength \/ back = {} THEN sample
     ELSE LET i == CHOOSE i \in back : TRUE
          IN IF sample[end + 1 - i] \in Leads THEN SubSeq(sample, 1, end - i) ELSE sample

IsText(bytes) ==
  LET sample == SubSeq(bytes, 1, IF Len(bytes) < SampleBytes THEN Len(bytes) ELSE SampleBytes)
  IN /\ bytes # <<>> /\ \A i \in DOMAIN sample : sample[i] # "zero"
     /\ Decodes(TrimPartialCodePoint(sample, Len(bytes)))

\* A ZIP file must hold a workbook.
Detect(file) ==
  CASE file.magic = "pdf" -> "pdf"
    [] file.magic \in {"png", "jpeg", "webp", "heic"} -> "image"
    [] file.magic = "workbook" -> "xlsx"
    [] file.magic = "none" /\ IsText(file.bytes) -> "csv"
    [] OTHER -> "unknown"

Matches(declared, detected) ==
  declared = detected \/ (declared = "csv" /\ detected = "xlsx")
=============================================================================
