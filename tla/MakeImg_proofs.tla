--------------------------- MODULE MakeImg_proofs ---------------------------
(***************************************************************************)
(* LayoutCorrect for every table of increasing offsets and every set of   *)
(* input lengths.  The loop of makeimg.py keeps cur_offset equal to the   *)
(* end of the last image written, in flash addresses, and the output      *)
(* length equal to cur_offset - OFFSET_BOOTLOADER; the padding of the     *)
(* next image is then exactly its offset less that end.                   *)
(***************************************************************************)
EXTENDS MakeImg, SequenceTheorems, TLAPS

USE OffsetsAssumption, SizesAssumption DEF N, Files

\* The end, in flash addresses, of the images written before entry i.
End(k) == IF k = 1 THEN Offsets[1] ELSE Offsets[k-1] + size[k-1]

(* The strengthening of LayoutCorrect: cur_offset is the end of the last *)
(* image, fout holds cur_offset - OFFSET_BOOTLOADER bytes, and the script *)
(* stops only at the end of the table or at a failed assertion.           *)
IInv ==
    /\ size \in [Files -> Sizes]
    /\ i \in 1..N+1
    /\ at \in [Files -> Int]
    /\ pc \in {"loop", "done", "assertFail"}
    /\ cur = End(i)
    /\ out = cur - Offsets[1]
    /\ \A j \in 1..i-1 : at[j] = Offsets[j] - Offsets[1]
    /\ \A j \in 1..i-2 : Fits(j)
    /\ pc = "done" => i = N + 1
    /\ pc = "assertFail" => i \in Files /\ Offsets[i] < cur

LEMMA OffsetsNat == N \in Nat \ {0} /\ \A j \in Files : Offsets[j] \in Nat
  BY LenProperties, ElementOfSeq

\* Padding to offset o from end c, then s bytes, in a file of c - b bytes.
LEMMA PadArith ==
  ASSUME NEW b \in Int, NEW c \in Int, NEW o \in Int, NEW s \in Int
  PROVE  (c - b) + (o - c) + s = (o + s) - b
  OBVIOUS

LEMMA InitIInv == Init => IInv
  BY OffsetsNat DEF Init, IInv, End

LEMMA NextIInv == IInv /\ [Next]_vars => IInv'
  <1> SUFFICES ASSUME IInv, [Next]_vars PROVE IInv'
    OBVIOUS
  <1>0. \A j \in Files : size[j] \in Nat
    BY DEF IInv
  <1>00. N \in Nat \ {0} /\ \A j \in Files : Offsets[j] \in Nat
    BY OffsetsNat
  <1>01. i \in 1..N+1 /\ cur = End(i) /\ out = cur - Offsets[1]
    BY DEF IInv
  <1>02. cur \in Int
    BY <1>0, <1>00, <1>01 DEF End
  <1>1. CASE WriteImage /\ Offsets[i] >= cur
    <2>1. /\ i \in Files /\ pc = "loop"
          /\ at' = [at EXCEPT ![i] = out + (Offsets[i] - cur)]
          /\ out' = out + (Offsets[i] - cur) + size[i]
          /\ cur' = Offsets[i] + size[i]
          /\ i' = i + 1 /\ pc' = pc /\ size' = size
      BY <1>1 DEF WriteImage
    <2>0. Offsets[i] \in Nat /\ size[i] \in Nat /\ Offsets[1] \in Nat
      BY <2>1, <1>0, <1>00
    <2>2. cur' = End(i')
      BY <2>1 DEF End
    <2>3. at'[i] = Offsets[i] - Offsets[1]
      BY <2>1, <1>00, <1>01, <1>02 DEF IInv
    <2>4. i > 1 => Fits(i - 1)
      BY <1>1, <2>1, <1>0, <1>00, <1>01 DEF End, Fits
    <2>5. \A j \in 1..i'-2 : Fits(j)'
      BY <2>1, <2>4 DEF IInv, Fits
    <2>6. \A j \in 1..i'-1 : at'[j] = Offsets[j] - Offsets[1]
      BY <2>1, <2>3 DEF IInv
    <2>7. out' = cur' - Offsets[1]
      <3>1. out' = out + (Offsets[i] - cur) + size[i] /\ cur' = Offsets[i] + size[i]
        BY <2>1
      <3>2. out = cur - Offsets[1]
        BY <1>01
      <3>3. (cur - Offsets[1]) + (Offsets[i] - cur) + size[i]
              = (Offsets[i] + size[i]) - Offsets[1]
        BY ONLY <2>0, <1>02, PadArith
      <3>4. QED
        BY ONLY <3>1, <3>2, <3>3
    <2>9. at' \in [Files -> Int]
      <3>1. at \in [Files -> Int] /\ i \in Files
        BY <2>1 DEF IInv
      <3>2. out + (Offsets[i] - cur) \in Int
        BY <2>0, <1>01, <1>02
      <3>3. QED
        BY ONLY <2>1, <3>1, <3>2
    <2>10. i' \in 1..N+1 /\ pc' \in {"loop", "done", "assertFail"}
      BY <2>1, <1>00
    <2>11. size' \in [Files -> Sizes]
      BY <2>1 DEF IInv
    <2>8. QED
      BY <2>1, <2>2, <2>5, <2>6, <2>7, <2>9, <2>10, <2>11 DEF IInv, End
  <1>2. CASE WriteImage /\ ~(Offsets[i] >= cur)
    <2>1. /\ i \in Files /\ pc' = "assertFail"
          /\ UNCHANGED <<i, cur, out, at, size>>
      BY <1>2 DEF WriteImage
    <2>2. Offsets[i] < cur
      BY <1>2, <2>1, <1>00, <1>02
    <2>3. QED
      BY <2>1, <2>2 DEF IInv, End, Fits
  <1>3. CASE Finish
    BY <1>3 DEF Finish, IInv, End, Fits
  <1>4. CASE UNCHANGED vars
    BY <1>4 DEF vars, IInv, End, Fits
  <1>5. QED
    BY <1>1, <1>2, <1>3, <1>4 DEF Next

LEMMA IInvLayout == IInv => LayoutCorrect
  <1> SUFFICES ASSUME IInv PROVE LayoutCorrect
    OBVIOUS
  <1>0. N \in Nat \ {0} /\ \A j \in Files : Offsets[j] \in Nat /\ size[j] \in Nat
    BY OffsetsNat DEF IInv
  <1>1. ASSUME pc = "assertFail" PROVE i > 1 /\ ~Fits(i-1)
    <2>1. i \in Files /\ Offsets[i] < cur /\ cur = End(i)
      BY <1>1 DEF IInv
    <2>2. i # 1
      BY <2>1 DEF End
    <2>3. cur = Offsets[i-1] + size[i-1] /\ i - 1 \in 1..N-1
      BY <2>1, <2>2, <1>0 DEF End
    <2>4. QED
      BY <2>1, <2>2, <2>3, <1>0 DEF Fits
  <1>2. ASSUME pc = "done"
        PROVE  /\ \A j \in Files : Fits(j)
               /\ out = Offsets[N] + size[N] - Offsets[1]
    <2>1. i = N + 1 /\ cur = End(i) /\ out = cur - Offsets[1]
      BY <1>2 DEF IInv
    <2>2. cur = Offsets[N] + size[N]
      BY <2>1, <1>0 DEF End
    <2>3. \A j \in 1..N-1 : Fits(j)
      BY <2>1, <1>0 DEF IInv
    <2>4. QED
      BY <2>1, <2>2, <2>3, <1>0 DEF Fits
  <1>3. QED
    BY <1>1, <1>2 DEF IInv, LayoutCorrect

(* makeimg.py writes every image at its flash offset less                *)
(* OFFSET_BOOTLOADER, stops at the assertion exactly when an image       *)
(* overruns the gap before the next offset, and otherwise ends with the  *)
(* last image, for every offset table and every input length.            *)
THEOREM LayoutCorrectHolds == Spec => []LayoutCorrect
  <1>1. Spec => []IInv
    BY InitIInv, NextIInv, PTL DEF Spec
  <1>2. QED
    BY <1>1, IInvLayout, PTL

=============================================================================
