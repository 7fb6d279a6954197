------------------------------ MODULE MakeImg ------------------------------
(***************************************************************************)
(* firmware/esp32/makeimg.py: concatenate bootloader, partition table,   *)
(* PHY init data and application into firmware.bin, padding with 0xff up *)
(* to each image's fixed flash offset.  firmware.bin starts at flash      *)
(* address OFFSET_BOOTLOADER, so image j belongs at file position          *)
(* Offsets[j] - Offsets[1].  Bytes are abstracted to lengths: the model   *)
(* keeps the file length written so far and where each image starts.     *)
(***************************************************************************)
EXTENDS Naturals, Sequences

CONSTANTS
    Offsets,  \* the offsets of files_in, in order (lines 3-13)
    Sizes     \* the lengths the input files may have

ASSUME OffsetsAssumption ==
    /\ Offsets \in Seq(Nat) /\ Len(Offsets) > 0
    /\ \A j \in 1..Len(Offsets)-1 : Offsets[j] < Offsets[j+1]
ASSUME SizesAssumption == Sizes \subseteq Nat /\ Sizes # {}

N == Len(Offsets)
Files == 1..N

VARIABLES
    size,  \* size[j]: len(data) of the j-th input file
    i,     \* the index of the next entry of files_in
    cur,   \* cur_offset
    out,   \* the number of bytes written to fout
    at,    \* at[j]: the file position where image j was written, 0 before
    pc     \* "loop", "done", or "assertFail" (AssertionError at line 20)

vars == <<size, i, cur, out, at, pc>>

\* Lines 15-18: cur_offset = OFFSET_BOOTLOADER, fout opened empty.
Init ==
    /\ size \in [Files -> Sizes]
    /\ i = 1
    /\ cur = Offsets[1]
    /\ out = 0
    /\ at = [j \in Files |-> 0]
    /\ pc = "loop"

\* Mutant: line 22 is lost, cur_offset is not moved to the offset.
WriteImageNoSync ==
    /\ pc = "loop" /\ i \in Files
    /\ IF Offsets[i] >= cur
       THEN /\ at' = [at EXCEPT ![i] = out + (Offsets[i] - cur)]
            /\ out' = out + (Offsets[i] - cur) + size[i]
            /\ cur' = cur + size[i]
            /\ i' = i + 1
            /\ UNCHANGED pc
       ELSE /\ pc' = "assertFail"
            /\ UNCHANGED <<i, cur, out, at>>
    /\ UNCHANGED size

\* Lines 19-27, one entry of files_in: assert offset >= cur_offset; pad
\* with offset - cur_offset bytes of 0xff; cur_offset = offset; append the
\* file; cur_offset += len(data).  The assertion aborts the script with
\* firmware.bin written up to the previous image.
WriteImage ==
    /\ pc = "loop" /\ i \in Files
    /\ IF Offsets[i] >= cur
       THEN /\ at' = [at EXCEPT ![i] = out + (Offsets[i] - cur)]
            /\ out' = out + (Offsets[i] - cur) + size[i]
            /\ cur' = Offsets[i] + size[i]
            /\ i' = i + 1
            /\ UNCHANGED pc
       ELSE /\ pc' = "assertFail"
            /\ UNCHANGED <<i, cur, out, at>>
    /\ UNCHANGED size

\* Line 28: the loop is over, the total is printed, fout is closed.
Finish ==
    /\ pc = "loop" /\ i = N + 1
    /\ pc' = "done"
    /\ UNCHANGED <<size, i, cur, out, at>>

Next == WriteImage \/ Finish

Spec == Init /\ [][Next]_vars

-----------------------------------------------------------------------------
\* Image j fits the gap before the next fixed offset.
Fits(j) == j = N \/ Offsets[j] + size[j] <= Offsets[j+1]

(* The script builds the reference layout or refuses: every image       *)
(* written starts at its flash offset less OFFSET_BOOTLOADER, the script  *)
(* never goes on past an image longer than the gap before the next        *)
(* offset, the assertion fires only on such an image, and a finished file *)
(* ends with the last image.                                              *)
LayoutCorrect ==
    /\ \A j \in 1..i-1 : at[j] = Offsets[j] - Offsets[1]
    /\ \A j \in 1..i-2 : Fits(j)
    /\ pc = "assertFail" => i > 1 /\ ~Fits(i-1)
    /\ pc = "done" => /\ \A j \in Files : Fits(j)
                     /\ out = Offsets[N] + size[N] - Offsets[1]

=============================================================================
