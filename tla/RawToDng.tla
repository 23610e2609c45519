------------------------------ MODULE RawToDng ------------------------------
(***************************************************************************)
(* The native DNG writer (jni/freedcam/RawToDng.cpp) behind                *)
(* freed.jni.RawToDng: the Java object creates a DngWriter, hands it the   *)
(* sensor's bytes and the profile found by their number, writes the file   *)
(* and releases the writer.  The raw formats are DngProfile's.  Two of     *)
(* them (Mipi, Mipi12) are copied into one strip, a group of bytes at a    *)
(* time; the others are unpacked into 16 bit samples, a scanline at a      *)
(* time.  One step of the specification is one group or one scanline.      *)
(***************************************************************************)
EXTENDS Integers

CONSTANTS
    Pictures,   \* what is handed over: the data and the profile for them
    Unset       \* what a new buffer holds before it is written

ASSUME UnsetAssumption == Unset \notin Int

Mipi == 0
Qcom == 1
Plain == 2
Mipi16 == 3
Mipi12 == 4

RawTypes == {Mipi, Qcom, Plain, Mipi16, Mipi12}
StripTypes == {Mipi, Mipi12}
Byte == 0..255

\* Bytes and pixels the writer takes at a time; a row is "groups" of them.
GroupBytes == [t \in RawTypes |-> IF t \in {Mipi, Mipi16} THEN 5
                                  ELSE IF t = Mipi12 THEN 3 ELSE 8]
GroupPixels == [t \in RawTypes |-> IF t = Qcom THEN 6
                                   ELSE IF t = Mipi12 THEN 2 ELSE 4]

Width(p) == p.groups * GroupPixels[p.type]

\* shouldberowsize: what the pixels of a row take.
ShouldBe(p) == p.groups * GroupBytes[p.type]

(***************************************************************************)
(* The bytes from one row of the data to the next.  The strip writers      *)
(* divide the size of the data by the height (p.stride); processTight      *)
(* takes the profile's row size, or whole groups of eight bytes where it   *)
(* has none; the others have no room behind a row.                         *)
(***************************************************************************)
RowBytes(p) ==
    CASE p.type \in StripTypes    -> p.stride
      [] p.type \in {Qcom, Plain} -> ShouldBe(p)
      [] OTHER -> IF p.rowSize = 0 THEN 8 * ((5 * Width(p) + 31) \div 32)
                                   ELSE p.rowSize

\* rawSize / rawheight is the stride, with a rest that may stay behind the last
\* row; every row the profile promises is there.
ASSUME PicturesAssumption ==
    \A p \in Pictures :
        /\ p.type \in RawTypes
        /\ p.groups \in Nat \ {0} /\ p.h \in Nat \ {0}
        /\ p.size \in Nat /\ p.stride \in Nat /\ p.rowSize \in Nat
        /\ p.h * p.stride <= p.size /\ p.size < p.h * (p.stride + 1)
        /\ RowBytes(p) >= ShouldBe(p) /\ p.h * RowBytes(p) <= p.size
        /\ p.bytes \in [0..(p.size - 1) -> Byte]

VARIABLES
    phase,    \* where the Java object's one use of its writer is
    pic,      \* the picture handed over
    bits,     \* the BitsPerSample tag
    at,       \* the strip loop's i, row and m
    strip,    \* out: the bytes of the strip
    scan,     \* the scanlines written to the file
    line      \* the scanline loop's row

vars == <<phase, pic, bits, at, strip, scan, line>>

StripSize(p) == p.h * ShouldBe(p)
-----------------------------------------------------------------------------
(***************************************************************************)
(* The repacking of one group.  "b" is the group as a function of 0..4 (or *)
(* 0..2); masks and shifts of a byte are written as quotients and rests.   *)
(***************************************************************************)
\* The factor of a shift by "n" pairs of bits.
Pairs(n) == CASE n = 0 -> 1 [] n = 1 -> 4 [] n = 2 -> 16 [] OTHER -> 64

\* process10tight: four pixels of ten bits, most significant bits first.
Repack10(b) ==
    [k \in 0..4 |->
        CASE k = 0 -> b[0]
          [] k = 1 -> 64 * (b[4] % 4) + (b[1] \div 4)
          [] k = 2 -> 64 * (b[1] % 4) + 16 * ((b[4] \div 4) % 4) + (b[2] \div 16)
          [] k = 3 -> 16 * (b[2] % 16) + 4 * ((b[4] \div 16) % 4) + (b[3] \div 64)
          [] OTHER -> 4 * (b[3] % 64) + (b[4] \div 64)]

\* process12tight: (b[2] & 0xF0) << 4 leaves the byte, and (b[2] & 0x0F) >> 4 is
\* nothing: of the third byte no bit is kept.
Repack12(b) ==
    [k \in 0..2 |->
        CASE k = 0 -> b[0]
          [] k = 1 -> b[1] \div 16
          [] OTHER -> 16 * (b[1] % 16)]

Repack(t, b) == IF t = Mipi THEN Repack10(b) ELSE Repack12(b)

\* processTight: four pixels, their low bits in the fifth byte.
Tight(b, c) == 4 * b[c] + ((b[4] \div Pairs(c)) % 4)

\* processLoose: six times ten bits of a 64 bit word, low byte first.  Pixel c
\* lies in two of its bytes.
Loose(b, c) ==
    LET q == (10 * c) \div 8
        s == ((10 * c) % 8) \div 2
    IN  ((b[q] + 256 * b[q + 1]) \div Pairs(s)) % 1024

\* processSXXX16: low byte, high byte.
Plain16(b, c) == b[2 * c] + 256 * b[2 * c + 1]

Sample(t, b, c) ==
    CASE t = Mipi16 -> Tight(b, c)
      [] t = Qcom   -> Loose(b, c)
      [] OTHER      -> Plain16(b, c)

\* The group of the data that begins at byte "from".
GroupAt(p, from) == [k \in 0..(GroupBytes[p.type] - 1) |-> p.bytes[from + k]]

Scanline(p, r) ==
    [c \in 0..(Width(p) - 1) |->
        LET n == GroupPixels[p.type]
        IN  Sample(p.type,
                   GroupAt(p, r * RowBytes(p) + (c \div n) * GroupBytes[p.type]),
                   c % n)]

\* A slip: the first raw type counts among those of 16 bits.
BitsPerSampleAtLeast(t) == IF t >= 0 THEN 16 ELSE 10

\* writeIfd0: the branch for twelve bits asks for a raw type below zero, and no
\* profile has one.
BitsPerSample(t) == IF t > 0 THEN 16 ELSE IF t < 0 THEN 12 ELSE 10
-----------------------------------------------------------------------------
Nothing == [i |-> 0, row |-> 0, m |-> 0]

Init ==
    /\ phase = "created"
    /\ pic \in Pictures
    /\ bits = 0 /\ at = Nothing /\ line = 0
    /\ strip = [j \in 0..(-1) |-> Unset]
    /\ scan = [r \in 0..(-1) |-> Unset]

\* WriteDngWithProfile: SetBayerInfo, and WriteDNG as far as the loop that
\* processes the data.
BeginWrite ==
    /\ phase = "created"
    /\ phase' = "writing"
    /\ bits' = BitsPerSample(pic.type)
    /\ IF pic.type \in StripTypes
       THEN /\ at' = [i |-> 0, row |-> ShouldBe(pic), m |-> 0]
            /\ strip' = [j \in 0..(StripSize(pic) - 1) |-> Unset]
            /\ UNCHANGED scan
       ELSE /\ scan' = [r \in 0..(pic.h - 1) |-> Unset]
            /\ UNCHANGED <<at, strip>>
    /\ line' = 0
    /\ UNCHANGED pic

\* No profile knows the size of the data: nothing is written.
NoProfile ==
    /\ phase = "created"
    /\ phase' = "closed"
    /\ UNCHANGED <<pic, bits, at, strip, scan, line>>

\* A slip: the bytes behind a row are not stepped over.
CopyGroupUnskipped ==
    /\ phase = "writing" /\ pic.type \in StripTypes
    /\ at.i < pic.size
    /\ LET n == GroupBytes[pic.type]
           g == Repack(pic.type, GroupAt(pic, at.i))
       IN  /\ strip' = [j \in DOMAIN strip |->
                           IF j \in at.m..(at.m + n - 1) THEN g[j - at.m]
                                                         ELSE strip[j]]
           /\ at' = [i   |-> at.i + n,
                     row |-> IF at.i = at.row THEN at.row + pic.stride ELSE at.row,
                     m   |-> at.m + n]
    /\ UNCHANGED <<phase, pic, bits, scan, line>>

(***************************************************************************)
(* One round of the loop of process10tight and process12tight.  Where a    *)
(* row is through, the bytes between it and the next are stepped over.     *)
(* Behind the last row the loop does so once more, and the group it then   *)
(* copies is not part of the strip that is written.                        *)
(***************************************************************************)
CopyGroup ==
    /\ phase = "writing" /\ pic.type \in StripTypes
    /\ at.i < pic.size
    /\ LET through == at.i = at.row
           i == IF through THEN at.i + (pic.stride - ShouldBe(pic)) ELSE at.i
           n == GroupBytes[pic.type]
           g == Repack(pic.type, GroupAt(pic, i))
       IN  /\ strip' = [j \in DOMAIN strip |->
                           IF j \in at.m..(at.m + n - 1) THEN g[j - at.m]
                                                         ELSE strip[j]]
           /\ at' = [i   |-> i + n,
                     row |-> IF through THEN at.row + pic.stride ELSE at.row,
                     m   |-> at.m + n]
    /\ UNCHANGED <<phase, pic, bits, scan, line>>

\* One round of the row loop of processTight, processLoose or processSXXX16.
UnpackLine ==
    /\ phase = "writing" /\ pic.type \notin StripTypes
    /\ line < pic.h
    /\ scan' = [scan EXCEPT ![line] = Scanline(pic, line)]
    /\ line' = line + 1
    /\ UNCHANGED <<phase, pic, bits, at, strip>>

\* The strip or the last line is in the file, and WriteDNG deletes the data.
EndWrite ==
    /\ phase = "writing"
    /\ IF pic.type \in StripTypes THEN at.i >= pic.size ELSE line >= pic.h
    /\ phase' = "written"
    /\ UNCHANGED <<pic, bits, at, strip, scan, line>>

\* RELEASE frees the writer; the second one, of PictureModule.saveDng, finds the
\* handler null.
RELEASE ==
    /\ phase \in {"written", "closed"}
    /\ phase' = "released"
    /\ UNCHANGED <<pic, bits, at, strip, scan, line>>

Next == BeginWrite \/ NoProfile \/ CopyGroup \/ UnpackLine \/ EndWrite \/ RELEASE

Spec == Init /\ [][Next]_vars

\* The writer is one thread's, which does not stop on its own.
FairSpec == Spec /\ WF_vars(Next)
-----------------------------------------------------------------------------
TypeOK ==
    /\ phase \in {"created", "writing", "written", "closed", "released"}
    /\ pic \in Pictures
    /\ bits \in {0, 10, 12, 16}
    /\ at \in [i : Nat, row : Nat, m : Nat]
    /\ line \in 0..pic.h
    /\ strip \in [DOMAIN strip -> Byte \cup {Unset}]

\* What is copied into the strip lies where its pixels belong, whatever stands
\* behind the rows of the data: the bytes of row r come from row r
\* (process10tight and process12tight, i, row and m).
StripInPlace ==
    pic.type \in StripTypes /\ phase \in {"writing", "written"} =>
        \A r \in 0..(pic.h - 1), k \in 0..(pic.groups - 1) :
            LET n == GroupBytes[pic.type]
                j == r * ShouldBe(pic) + k * n
                g == Repack(pic.type, GroupAt(pic, r * pic.stride + k * n))
            IN  at.m > j => \A b \in 0..(n - 1) : strip[j + b] = g[b]

\* What keeps StripInPlace and ReadsBack: the loop stands behind k groups of row
\* r in the data and in the strip, and the lines before "line" are written.
CopyInv ==
    /\ pic \in Pictures
    /\ phase \in {"writing", "written"} =>
         /\ bits = BitsPerSample(pic.type)
         /\ pic.type \in StripTypes =>
              LET n == GroupBytes[pic.type]
              IN  /\ strip = [j \in 0..(StripSize(pic) - 1) |-> strip[j]]
                  /\ \E r \in 0..pic.size, k \in 0..pic.groups :
                       at = [i   |-> r * pic.stride + k * n,
                             row |-> r * pic.stride + ShouldBe(pic),
                             m   |-> r * ShouldBe(pic) + k * n]
                  /\ phase = "written" => at.i >= pic.size
         /\ pic.type \notin StripTypes =>
              /\ line \in 0..pic.h
              /\ scan = [r \in 0..(pic.h - 1) |-> scan[r]]
              /\ \A r \in 0..(line - 1) : scan[r] = Scanline(pic, r)
              /\ phase = "written" => line = pic.h

\* How DngProfile's formats hold pixel c of row r.
Pixel(p, r, c) ==
    LET n == GroupPixels[p.type]
        b == GroupAt(p, r * RowBytes(p) + (c \div n) * GroupBytes[p.type])
        k == c % n
        q == k + (k \div 4)
    IN  CASE p.type \in {Mipi, Mipi16} -> 4 * b[k] + ((b[4] \div Pairs(k)) % 4)
          [] p.type = Qcom ->
                (b[q] \div Pairs(k % 4))
                    + (256 \div Pairs(k % 4)) * (b[q + 1] % (4 * Pairs(k % 4)))
          [] OTHER -> b[2 * k] + 256 * b[2 * k + 1]

\* What a reader of the file takes for pixel c of row r: samples of as many bits
\* as the tag says, most significant first, from the strip, or whole ones.
Read(p, r, c) ==
    LET j == r * ShouldBe(p) + 5 * (c \div 4) + (c % 4)
    IN  IF bits = 10 /\ p.type \in StripTypes
        THEN ((256 * strip[j] + strip[j + 1]) \div Pairs(3 - (c % 4))) % 1024
        ELSE IF bits = 16 /\ p.type \notin StripTypes THEN scan[r][c] ELSE Unset

\* Every pixel of the sensor is in the file, in its row and column and with all
\* of its bits (writeIfd0's tag, the loops of the process functions).  Not so for
\* Mipi12, whose low bits process12tight leaves out and whose tag says 16.
ReadsBack ==
    phase = "written" /\ pic.type # Mipi12 =>
        \A r \in 0..(pic.h - 1), c \in 0..(Width(pic) - 1) :
            Read(pic, r, c) = Pixel(pic, r, c)
=============================================================================
