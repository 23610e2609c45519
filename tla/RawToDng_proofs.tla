---------------------------- MODULE RawToDng_proofs ----------------------------
(***************************************************************************)
(* Proofs about the DNG writer, for pictures of any size and any bytes:    *)
(* the strip loop puts every group where its pixels belong, whatever room  *)
(* there is behind the rows, and every pixel can be read back from the     *)
(* file with all of its bits.                                              *)
(***************************************************************************)
EXTENDS RawToDng, TLAPS

\* The four pixels of a group are in its repacked bytes.
LEMMA RepackKeepsPixels ==
  ASSUME NEW x \in [0..4 -> Byte], NEW c \in 0..3
  PROVE  /\ Repack10(x) \in [0..4 -> Byte]
         /\ ((256 * Repack10(x)[c] + Repack10(x)[c + 1]) \div Pairs(3 - c)) % 1024
              = 4 * x[c] + ((x[4] \div Pairs(c)) % 4)
<1> DEFINE g == Repack10(x)
<1>x. \A k \in 0..4 : x[k] \in 0..255
  BY DEF Byte
<1>x0. PICK x0 \in 0..255 : x[0] = x0
  BY <1>x
<1>x1. PICK x1 \in 0..255 : x[1] = x1
  BY <1>x
<1>x2. PICK x2 \in 0..255 : x[2] = x2
  BY <1>x
<1>x3. PICK x3 \in 0..255 : x[3] = x3
  BY <1>x
<1>x4. PICK x4 \in 0..255 : x[4] = x4
  BY <1>x
<1>1. x[0] = x0 /\ x[1] = x1 /\ x[2] = x2 /\ x[3] = x3 /\ x[4] = x4
  BY <1>x0, <1>x1, <1>x2, <1>x3, <1>x4
<1> DEFINE g1 == 64 * (x4 % 4) + (x1 \div 4)
           g2 == 64 * (x1 % 4) + 16 * ((x4 \div 4) % 4) + (x2 \div 16)
           g3 == 16 * (x2 % 16) + 4 * ((x4 \div 16) % 4) + (x3 \div 64)
           g4 == 4 * (x3 % 64) + (x4 \div 64)
<1>2. g[0] = x0 /\ g[1] = g1 /\ g[2] = g2 /\ g[3] = g3 /\ g[4] = g4
  BY <1>1 DEF Repack10
<1>3. g1 \in 0..255 /\ g2 \in 0..255 /\ g3 \in 0..255 /\ g4 \in 0..255
  BY SMTT(30)
<1>4. g \in [0..4 -> Byte]
  <2>1. g = [k \in 0..4 |-> g[k]]
    BY DEF Repack10
  <2>2. \A k \in 0..4 : g[k] \in 0..255
    BY <1>2, <1>3, SMTT(40)
  <2> QED
    BY <2>1, <2>2 DEF Byte
<1>5. CASE c = 0
  <2>1. ((256 * x0 + g1) \div 64) % 1024 = 4 * x0 + ((x4 \div 1) % 4)
    OBVIOUS
  <2>2. Pairs(3 - c) = 64 /\ Pairs(c) = 1
    BY <1>5 DEF Pairs
  <2>3. g[c] = x0 /\ g[c + 1] = g1 /\ x[c] = x0
    BY <1>1, <1>2, <1>5
  <2> HIDE DEF g, g1, g2, g3, g4
  <2> QED
    BY <1>1, <1>4, <2>1, <2>2, <2>3 DEF g
<1>6. CASE c = 1
  <2>1. ((256 * g1 + g2) \div 16) % 1024 = 4 * x1 + ((x4 \div 4) % 4)
    OBVIOUS
  <2>2. Pairs(3 - c) = 16 /\ Pairs(c) = 4
    BY <1>6 DEF Pairs
  <2>3. g[c] = g1 /\ g[c + 1] = g2 /\ x[c] = x1
    BY <1>1, <1>2, <1>6
  <2> HIDE DEF g, g1, g2, g3, g4
  <2> QED
    BY <1>1, <1>4, <2>1, <2>2, <2>3 DEF g
<1>7. CASE c = 2
  <2>1. ((256 * g2 + g3) \div 4) % 1024 = 4 * x2 + ((x4 \div 16) % 4)
    BY SMTT(40)
  <2>2. Pairs(3 - c) = 4 /\ Pairs(c) = 16
    BY <1>7 DEF Pairs
  <2>3. g[c] = g2 /\ g[c + 1] = g3 /\ x[c] = x2
    BY <1>1, <1>2, <1>7
  <2> HIDE DEF g, g1, g2, g3, g4
  <2> QED
    BY <1>1, <1>4, <2>1, <2>2, <2>3 DEF g
<1>8. CASE c = 3
  <2>1. ((256 * g3 + g4) \div 1) % 1024 = 4 * x3 + ((x4 \div 64) % 4)
    OBVIOUS
  <2>2. Pairs(3 - c) = 1 /\ Pairs(c) = 64
    BY <1>8 DEF Pairs
  <2>3. g[c] = g3 /\ g[c + 1] = g4 /\ x[c] = x3
    BY <1>1, <1>2, <1>8
  <2> HIDE DEF g, g1, g2, g3, g4
  <2> QED
    BY <1>1, <1>4, <2>1, <2>2, <2>3 DEF g
<1> QED
  BY <1>5, <1>6, <1>7, <1>8

\* The two ways to take ten bits out of a 64 bit word agree.
LEMMA LooseKeepsPixels ==
  ASSUME NEW x \in [0..7 -> Byte], NEW c \in 0..5
  PROVE  LET q == c + (c \div 4)
         IN  Loose(x, c) = (x[q] \div Pairs(c % 4))
                             + (256 \div Pairs(c % 4)) * (x[q + 1] % (4 * Pairs(c % 4)))
<1> DEFINE q == c + (c \div 4)
           p == Pairs(c % 4)
<1>1. /\ (10 * c) \div 8 = q /\ ((10 * c) % 8) \div 2 = c % 4
      /\ q \in 0..6 /\ c % 4 \in 0..3
  <2>1. c \in {0, 1, 2, 3, 4, 5}
    OBVIOUS
  <2> QED
    BY <2>1
<1>a. PICK a \in 0..255 : x[q] = a
  BY <1>1 DEF Byte
<1>b. PICK b \in 0..255 : x[q + 1] = b
  BY <1>1, SMTT(40) DEF Byte
<1>2. x[q] = a /\ x[q + 1] = b
  BY <1>a, <1>b
<1>3. Loose(x, c) = ((a + 256 * b) \div p) % 1024
  BY <1>1, <1>2 DEF Loose
<1>4. ((a + 256 * b) \div p) % 1024 = (a \div p) + (256 \div p) * (b % (4 * p))
  <2>1. CASE c % 4 = 0
    <3>1. ((a + 256 * b) \div 1) % 1024 = (a \div 1) + (256 \div 1) * (b % (4 * 1))
      OBVIOUS
    <3>2. p = 1
      BY <2>1 DEF Pairs
    <3> HIDE DEF p
    <3> QED
      BY <3>1, <3>2, ZenonT(40)
  <2>2. CASE c % 4 = 1
    <3>1. ((a + 256 * b) \div 4) % 1024 = (a \div 4) + (256 \div 4) * (b % (4 * 4))
      OBVIOUS
    <3>2. p = 4
      BY <2>2 DEF Pairs
    <3> HIDE DEF p
    <3> QED
      BY <3>1, <3>2, ZenonT(40)
  <2>3. CASE c % 4 = 2
    <3>1. ((a + 256 * b) \div 16) % 1024 = (a \div 16) + (256 \div 16) * (b % (4 * 16))
      OBVIOUS
    <3>2. p = 16
      BY <2>3 DEF Pairs
    <3> HIDE DEF p
    <3> QED
      BY <3>1, <3>2, ZenonT(40)
  <2>4. CASE c % 4 = 3
    <3>1. ((a + 256 * b) \div 64) % 1024 = (a \div 64) + (256 \div 64) * (b % (4 * 64))
      OBVIOUS
    <3>2. p = 64
      BY <2>4 DEF Pairs
    <3> HIDE DEF p
    <3> QED
      BY <3>1, <3>2, ZenonT(40)
  <2> QED
    BY <1>1, <2>1, <2>2, <2>3, <2>4
<1> QED
  BY <1>2, <1>3, <1>4
------------------------------------------------------------------------------
\* Rows of "G" groups: a group's number in the strip tells its row and its place
\* in it, and the rows of a picture of height "h" end with group h * G.
LEMMA GroupNumber ==
  ASSUME NEW G \in Nat, NEW r \in Nat, NEW s \in Nat,
         NEW k \in 0..(G - 1), NEW l \in 0..(G - 1), r * G + k = s * G + l
  PROVE  r = s /\ k = l
<1>1. CASE r < s
  <2>1. (r + 1) * G <= s * G
    BY <1>1
  <2> QED
    BY <2>1
<1>2. CASE s < r
  <2>1. (s + 1) * G <= r * G
    BY <1>2
  <2> QED
    BY <2>1
<1>3. CASE r = s
  BY <1>3
<1> QED
  BY <1>1, <1>2, <1>3

LEMMA GroupFits ==
  ASSUME NEW G \in Nat, NEW h \in Nat, NEW r \in 0..(h - 1), NEW k \in 0..(G - 1)
  PROVE  r * G + k + 1 <= h * G
<1>1. (r + 1) * G <= h * G
  OBVIOUS
<1> QED
  BY <1>1

\* What the assumptions say of a picture whose bytes go into a strip.
LEMMA StripPicture ==
  ASSUME NEW p \in Pictures, p.type \in StripTypes
  PROVE  /\ GroupBytes[p.type] \in {3, 5}
         /\ p.groups \in Nat /\ p.groups > 0 /\ p.h \in Nat /\ p.size \in Nat
         /\ p.stride \in Nat /\ p.h * p.stride <= p.size
         /\ ShouldBe(p) = p.groups * GroupBytes[p.type]
         /\ ShouldBe(p) \in Nat /\ ShouldBe(p) > 0 /\ p.stride >= ShouldBe(p)
<1>1. GroupBytes[p.type] \in {3, 5}
  BY DEF GroupBytes, StripTypes, RawTypes, Mipi, Mipi12, Mipi16, Qcom, Plain
<1>2. RowBytes(p) = p.stride
  BY DEF RowBytes, StripTypes, Mipi, Mipi12, Qcom, Plain
<1>3. /\ p.groups \in Nat \ {0} /\ p.h \in Nat \ {0} /\ p.size \in Nat /\ p.stride \in Nat
      /\ p.h * p.stride <= p.size /\ p.stride >= ShouldBe(p)
  BY <1>2, PicturesAssumption
<1>4. ShouldBe(p) = p.groups * GroupBytes[p.type]
  BY DEF ShouldBe
<1>5. ShouldBe(p) \in Nat /\ ShouldBe(p) > 0
  BY <1>1, <1>3, <1>4
<1> QED
  BY <1>1, <1>3, <1>4, <1>5

\* Where a round of the strip loop copies from and to: the group after the one
\* before, in the data and in the strip, with the room behind a row left out.
LEMMA CopyPosition ==
  ASSUME CopyInv, CopyGroup
  PROVE  LET n == GroupBytes[pic.type]
         IN \E r \in 0..pic.size, k \in 0..(pic.groups - 1) :
              /\ at.m = r * ShouldBe(pic) + k * n
              /\ at' = [i   |-> r * pic.stride + (k + 1) * n,
                        row |-> r * pic.stride + ShouldBe(pic),
                        m   |-> r * ShouldBe(pic) + (k + 1) * n]
              /\ strip' = [j \in DOMAIN strip |->
                              IF j \in at.m..(at.m + n - 1)
                              THEN Repack(pic.type,
                                          GroupAt(pic, r * pic.stride + k * n))[j - at.m]
                              ELSE strip[j]]
<1> DEFINE n == GroupBytes[pic.type]
           G == pic.groups
           D == pic.stride
           S == ShouldBe(pic)
<1>1. /\ n \in {3, 5} /\ G \in Nat /\ G > 0 /\ D \in Nat /\ S = G * n
      /\ S \in Nat /\ S > 0 /\ D >= S /\ pic.size \in Nat
  BY StripPicture DEF CopyGroup, CopyInv
<1>2. PICK r \in 0..pic.size, k \in 0..G :
        at = [i |-> r * D + k * n, row |-> r * D + S, m |-> r * S + k * n]
  <2>1. phase = "writing" /\ pic.type \in StripTypes
    BY DEF CopyGroup
  <2> QED
    BY <2>1, Zenon DEF CopyInv
<1>3. at.i = r * D + k * n /\ at.row = r * D + S /\ at.m = r * S + k * n
  BY <1>2
<1>4. r * D \in Nat /\ r * S \in Nat /\ k * n \in Nat
  BY <1>1
<1>5. CASE k = G
  <2>1. at.i = at.row
    BY <1>1, <1>3, <1>5
  <2>2. (r + 1) * D = r * D + D /\ (r + 1) * S = r * S + S
    <3> HIDE DEF n, G, D, S
    <3> QED
      BY <1>1
  <2>3. at.i + (D - S) = (r + 1) * D + 0 * n
    BY <1>1, <1>3, <1>4, <2>1, <2>2
  <2>4. at.row + D = (r + 1) * D + S
    BY <1>1, <1>3, <1>4, <2>2
  <2>5. at.m = (r + 1) * S + 0 * n
    BY <1>1, <1>3, <1>4, <1>5, <2>2
  <2>6. r + 1 \in 0..pic.size
    <3>1. r * D < pic.size
      BY <1>1, <1>3, <1>4 DEF CopyGroup
    <3>2. r <= r * D
      BY <1>1
    <3> QED
      BY <1>1, <1>4, <3>1, <3>2
  <2>7. (r + 1) * D + 0 * n + n = (r + 1) * D + (0 + 1) * n
        /\ (r + 1) * S + 0 * n + n = (r + 1) * S + (0 + 1) * n
    BY <1>1
  <2>8. 0 \in 0..(G - 1)
    BY <1>1
  <2>a. at' = [i |-> (at.i + (D - S)) + n, row |-> at.row + D, m |-> at.m + n]
    BY <2>1 DEF CopyGroup
  <2>b. strip' = [j \in DOMAIN strip |->
                    IF j \in at.m..(at.m + n - 1)
                    THEN Repack(pic.type, GroupAt(pic, at.i + (D - S)))[j - at.m]
                    ELSE strip[j]]
    BY <2>1 DEF CopyGroup
  <2> HIDE DEF n, G, D, S
  <2>9. /\ at.m = (r + 1) * S + 0 * n
        /\ at' = [i   |-> (r + 1) * D + (0 + 1) * n,
                  row |-> (r + 1) * D + S,
                  m   |-> (r + 1) * S + (0 + 1) * n]
        /\ strip' = [j \in DOMAIN strip |->
                        IF j \in at.m..(at.m + n - 1)
                        THEN Repack(pic.type, GroupAt(pic, (r + 1) * D + 0 * n))[j - at.m]
                        ELSE strip[j]]
    BY <2>3, <2>4, <2>5, <2>7, <2>a, <2>b, Zenon
  <2> QED
    BY <2>6, <2>8, <2>9 DEF n, G, D, S
<1>6. CASE k # G
  <2>1. k \in 0..(G - 1) /\ at.i # at.row
    <3>1. k \in 0..(G - 1)
      BY <1>1, <1>6
    <3>2. k * n < G * n
      BY <1>1, <3>1
    <3> QED
      BY <1>1, <1>3, <1>4, <3>1, <3>2
  <2>2. r * D + k * n + n = r * D + (k + 1) * n /\ r * S + k * n + n = r * S + (k + 1) * n
    <3> HIDE DEF n, G, D, S
    <3> QED
      BY <1>1, <1>4
  <2>a. at' = [i |-> at.i + n, row |-> at.row, m |-> at.m + n]
    BY <2>1 DEF CopyGroup
  <2>b. strip' = [j \in DOMAIN strip |->
                    IF j \in at.m..(at.m + n - 1)
                    THEN Repack(pic.type, GroupAt(pic, at.i))[j - at.m]
                    ELSE strip[j]]
    BY <2>1 DEF CopyGroup
  <2> HIDE DEF n, G, D, S
  <2>3. /\ at.m = r * S + k * n
        /\ at' = [i   |-> r * D + (k + 1) * n,
                  row |-> r * D + S,
                  m   |-> r * S + (k + 1) * n]
        /\ strip' = [j \in DOMAIN strip |->
                        IF j \in at.m..(at.m + n - 1)
                        THEN Repack(pic.type, GroupAt(pic, r * D + k * n))[j - at.m]
                        ELSE strip[j]]
    BY <1>3, <2>2, <2>a, <2>b, Zenon
  <2> QED
    BY <2>1, <2>3 DEF n, G, D, S
<1> QED
  BY <1>5, <1>6

\* Group k of row r is group r * G + k of the strip, and it ends before the strip
\* does.
LEMMA StripPlace ==
  ASSUME NEW p \in Pictures, p.type \in StripTypes,
         NEW r \in Nat, NEW k \in 0..(p.groups - 1)
  PROVE  LET n == GroupBytes[p.type]
         IN  /\ r * p.groups + k \in Nat
             /\ r * ShouldBe(p) + k * n = (r * p.groups + k) * n
             /\ r < p.h => (r * p.groups + k) * n + n <= StripSize(p)
             /\ StripSize(p) \in Nat
<1> DEFINE n == GroupBytes[p.type]
           G == p.groups
           S == ShouldBe(p)
<1>1. n \in Nat /\ G \in Nat /\ p.h \in Nat /\ S = G * n
  BY StripPicture
<1>2. r * G + k \in Nat /\ k \in Nat
  BY <1>1
<1>3. r * (G * n) + k * n = (r * G + k) * n
  <2> HIDE DEF n, G
  <2> QED
    BY <1>1, <1>2
<1>4. ASSUME r < p.h
      PROVE  (r * G + k) * n + n <= p.h * (G * n)
  <2>1. r * G + k + 1 <= p.h * G
    BY <1>1, <1>4, GroupFits
  <2> DEFINE a == r * G + k
             H == p.h
  <2>2. a \in Nat /\ H \in Nat /\ a + 1 <= H * G
    BY <1>1, <1>2, <2>1
  <2>3. a * n + n <= H * (G * n)
    <3> HIDE DEF n, G, a, H
    <3>1. (a + 1) * n <= (H * G) * n
      BY <1>1, <2>2
    <3> QED
      BY <1>1, <2>2, <3>1
  <2> QED
    BY <2>3
<1>5. StripSize(p) = p.h * (G * n) /\ StripSize(p) \in Nat
  BY <1>1 DEF StripSize
<1> QED
  BY <1>1, <1>2, <1>3, <1>4, <1>5

\* A round of the strip loop leaves the groups before it and adds one in place.
LEMMA StripStep ==
  ASSUME CopyInv, StripInPlace, CopyGroup
  PROVE  StripInPlace'
<1> DEFINE n == GroupBytes[pic.type]
           G == pic.groups
           D == pic.stride
           S == ShouldBe(pic)
           q(r, k) == r * G + k
<1>1. /\ phase = "writing" /\ pic.type \in StripTypes /\ pic \in Pictures
      /\ UNCHANGED <<phase, pic>>
  BY DEF CopyGroup, CopyInv
<1>2. n \in Nat /\ n > 0 /\ G \in Nat /\ pic.h \in Nat
  BY <1>1, StripPicture
<1>3. PICK r \in 0..pic.size, k \in 0..(G - 1) :
        /\ at.m = r * S + k * n
        /\ at' = [i   |-> r * D + (k + 1) * n,
                  row |-> r * D + S,
                  m   |-> r * S + (k + 1) * n]
        /\ strip' = [j \in DOMAIN strip |->
                        IF j \in at.m..(at.m + n - 1)
                        THEN Repack(pic.type, GroupAt(pic, r * D + k * n))[j - at.m]
                        ELSE strip[j]]
  BY CopyPosition
<1>4. q(r, k) \in Nat /\ at.m = q(r, k) * n /\ at'.m = q(r, k) * n + n
  <2>1. q(r, k) \in Nat /\ r * S + k * n = q(r, k) * n
    BY <1>1, StripPlace
  <2>2. r * S + (k + 1) * n = r * S + k * n + n
    <3> HIDE DEF n, S
    <3>1. (k + 1) * n = k * n + n
      BY <1>2
    <3>2. r * S \in Nat /\ k * n \in Nat
      BY <1>1, <1>2, StripPicture DEF S
    <3> QED
      BY <1>2, <3>1, <3>2
  <2> QED
    BY <1>3, <2>1, <2>2
<1>5. DOMAIN strip = 0..(StripSize(pic) - 1)
  BY <1>1, Zenon DEF CopyInv
<1> SUFFICES ASSUME NEW r1 \in 0..(pic.h - 1), NEW k1 \in 0..(G - 1), NEW b \in 0..(n - 1),
                    at'.m > r1 * S + k1 * n
             PROVE  strip'[r1 * S + k1 * n + b]
                      = Repack(pic.type, GroupAt(pic, r1 * D + k1 * n))[b]
  BY <1>1 DEF StripInPlace
<1>6. /\ q(r1, k1) \in Nat /\ r1 * S + k1 * n = q(r1, k1) * n
      /\ q(r1, k1) * n + n <= StripSize(pic) /\ StripSize(pic) \in Nat
  <2>1. r1 \in Nat /\ r1 < pic.h
    BY <1>2
  <2> QED
    BY <1>1, <2>1, StripPlace
<1>7. q(r1, k1) <= q(r, k)
  <2> HIDE DEF q, n
  <2>1. q(r, k) * n + n > q(r1, k1) * n
    BY <1>4, <1>6
  <2>2. q(r1, k1) > q(r, k) => q(r1, k1) * n >= (q(r, k) + 1) * n
    BY <1>2, <1>4, <1>6
  <2> QED
    BY <1>2, <1>4, <1>6, <2>1, <2>2
<1>8. CASE q(r1, k1) = q(r, k)
  <2>1. r1 = r /\ k1 = k
    BY <1>2, <1>8, GroupNumber
  <2>2. /\ at.m + b \in DOMAIN strip /\ at.m + b \in at.m..(at.m + n - 1)
        /\ (at.m + b) - at.m = b
    <3> HIDE DEF q, n
    <3>1. q(r, k) * n \in Nat
      BY <1>2, <1>4
    <3>2. q(r, k) * n + n <= StripSize(pic)
      BY <1>6, <1>8
    <3> DEFINE Q == q(r, k) * n
               Z == StripSize(pic)
    <3> HIDE DEF Q, Z
    <3>3. Q \in Nat /\ Q + n <= Z /\ Z \in Nat /\ at.m = Q
      BY <1>4, <1>6, <3>1, <3>2 DEF Q, Z
    <3>4. Q + b \in 0..(Z - 1) /\ Q + b \in Q..(Q + n - 1) /\ (Q + b) - Q = b
      BY <1>2, <3>3
    <3>5. DOMAIN strip = 0..(Z - 1)
      BY <1>5 DEF Z
    <3> QED
      BY <3>3, <3>4, <3>5, Zenon
  <2>3. strip'[at.m + b] = Repack(pic.type, GroupAt(pic, r * D + k * n))[b]
    BY <1>3, <2>2, Zenon
  <2> QED
    BY <1>3, <2>1, <2>3
<1>9. CASE q(r1, k1) < q(r, k)
  <2>1. /\ at.m > r1 * S + k1 * n
        /\ r1 * S + k1 * n + b \in DOMAIN strip
        /\ r1 * S + k1 * n + b \notin at.m..(at.m + n - 1)
    <3> HIDE DEF q, n, S
    <3>1. q(r1, k1) * n + n <= q(r, k) * n
      <4>1. (q(r1, k1) + 1) * n <= q(r, k) * n
        BY <1>2, <1>4, <1>6, <1>9
      <4> QED
        BY <1>2, <1>4, <1>6, <4>1
    <3>2. q(r, k) * n \in Nat /\ q(r1, k1) * n \in Nat
      BY <1>2, <1>4, <1>6
    <3> DEFINE Q == q(r, k) * n
               P == q(r1, k1) * n
               Z == StripSize(pic)
    <3> HIDE DEF Q, P, Z
    <3>3. /\ Q \in Nat /\ P \in Nat /\ P + n <= Q /\ P + n <= Z /\ Z \in Nat
          /\ at.m = Q /\ r1 * S + k1 * n = P
      BY <1>4, <1>6, <3>1, <3>2 DEF Q, P, Z
    <3>4. Q > P /\ P + b \in 0..(Z - 1) /\ P + b \notin Q..(Q + n - 1)
      BY <1>2, <3>3
    <3>5. DOMAIN strip = 0..(Z - 1)
      BY <1>5 DEF Z
    <3> QED
      BY <3>3, <3>4, <3>5, Zenon
  <2>2. strip'[r1 * S + k1 * n + b] = strip[r1 * S + k1 * n + b]
    BY <1>3, <2>1, Zenon
  <2>3. strip[r1 * S + k1 * n + b] = Repack(pic.type, GroupAt(pic, r1 * D + k1 * n))[b]
    BY <1>1, <2>1, Zenon DEF StripInPlace
  <2> QED
    BY <2>2, <2>3
<1> QED
  <2> HIDE DEF q
  <2> QED
    BY <1>4, <1>6, <1>7, <1>8, <1>9
------------------------------------------------------------------------------
\* No step of the writer disturbs CopyInv.
LEMMA CopyInvStep ==
  ASSUME CopyInv, [Next]_vars
  PROVE  CopyInv'
<1>1. CASE BeginWrite
  <2>1. /\ phase' = "writing" /\ pic' = pic /\ pic \in Pictures
        /\ bits' = BitsPerSample(pic.type)
    BY <1>1 DEF BeginWrite, CopyInv
  <2>2. CASE pic.type \in StripTypes
    <3>1. /\ at' = [i |-> 0, row |-> ShouldBe(pic), m |-> 0]
          /\ strip' = [j \in 0..(StripSize(pic) - 1) |-> strip'[j]]
      BY <1>1, <2>2 DEF BeginWrite
    <3> DEFINE n == GroupBytes[pic.type]
               D == pic.stride
               S == ShouldBe(pic)
    <3>2. /\ n \in Nat /\ D \in Nat /\ S \in Nat /\ pic.size \in Nat
          /\ pic.groups \in Nat
      BY <2>1, <2>2, StripPicture
    <3>3. 0 * D + 0 * n = 0 /\ 0 * D + S = S /\ 0 * S + 0 * n = 0
      <4> HIDE DEF n, D, S
      <4> QED
        BY <3>2
    <3>4. at' = [i |-> 0 * D + 0 * n, row |-> 0 * D + S, m |-> 0 * S + 0 * n]
      BY <3>1, <3>3
    <3>5. \E r \in 0..pic.size, k \in 0..pic.groups :
            at' = [i |-> r * D + k * n, row |-> r * D + S, m |-> r * S + k * n]
      <4>1. 0 \in 0..pic.size /\ 0 \in 0..pic.groups
        BY <3>2
      <4> QED
        BY <3>4, <4>1, Zenon
    <3> QED
      BY <2>1, <2>2, <3>1, <3>5 DEF CopyInv
  <2>3. CASE pic.type \notin StripTypes
    <3>1. line' = 0 /\ scan' = [r \in 0..(pic.h - 1) |-> scan'[r]]
      BY <1>1, <2>3 DEF BeginWrite
    <3>2. pic.h \in Nat
      BY <2>1, PicturesAssumption
    <3> QED
      BY <2>1, <2>3, <3>1, <3>2 DEF CopyInv
  <2> QED
    BY <2>2, <2>3
<1>2. CASE CopyGroup
  <2> DEFINE n == GroupBytes[pic.type]
             D == pic.stride
             S == ShouldBe(pic)
  <2>1. /\ phase = "writing" /\ pic.type \in StripTypes /\ pic \in Pictures
        /\ UNCHANGED <<phase, pic, bits>> /\ bits = BitsPerSample(pic.type)
        /\ pic.groups \in Nat
    BY <1>2, StripPicture DEF CopyGroup, CopyInv
  <2>2. PICK r \in 0..pic.size, k \in 0..(pic.groups - 1) :
          /\ at' = [i   |-> r * D + (k + 1) * n,
                    row |-> r * D + S,
                    m   |-> r * S + (k + 1) * n]
          /\ strip' = [j \in DOMAIN strip |-> strip'[j]]
    <3>1. strip' = [j \in DOMAIN strip |-> strip'[j]]
      BY <1>2 DEF CopyGroup
    <3> QED
      BY <1>2, <3>1, CopyPosition
  <2>3. DOMAIN strip = 0..(StripSize(pic) - 1)
    BY <2>1, Zenon DEF CopyInv
  <2>4. k + 1 \in 0..pic.groups
    BY <2>1
  <2>5. \E s \in 0..pic.size, l \in 0..pic.groups :
          at' = [i |-> s * D + l * n, row |-> s * D + S, m |-> s * S + l * n]
    BY <2>2, <2>4, Zenon
  <2>6. strip' = [j \in 0..(StripSize(pic) - 1) |-> strip'[j]]
    BY <2>2, <2>3, Zenon
  <2> QED
    BY <2>1, <2>5, <2>6 DEF CopyInv
<1>3. CASE UnpackLine
  <2>1. /\ phase = "writing" /\ pic.type \notin StripTypes /\ pic \in Pictures
        /\ UNCHANGED <<phase, pic, bits, at, strip>>
        /\ bits = BitsPerSample(pic.type)
        /\ line \in 0..pic.h /\ line < pic.h /\ line' = line + 1
        /\ scan' = [scan EXCEPT ![line] = Scanline(pic, line)]
        /\ scan = [r \in 0..(pic.h - 1) |-> scan[r]]
        /\ \A r \in 0..(line - 1) : scan[r] = Scanline(pic, r)
    BY <1>3 DEF UnpackLine, CopyInv
  <2>2. pic.h \in Nat
    BY <2>1, PicturesAssumption
  <2>3. scan' = [r \in 0..(pic.h - 1) |-> scan'[r]]
    BY <2>1
  <2>4. line' \in 0..pic.h
    BY <2>1, <2>2
  <2>5. ASSUME NEW r \in 0..(line' - 1)
        PROVE  scan'[r] = Scanline(pic, r)
    <3>1. r = line \/ r \in 0..(line - 1)
      BY <2>1, <2>2
    <3>2. r \in DOMAIN scan
      BY <2>1, <2>2, <3>1
    <3>3. scan'[r] = IF r = line THEN Scanline(pic, line) ELSE scan[r]
      BY <2>1, <3>2
    <3> QED
      BY <2>1, <3>1, <3>3
  <2> QED
    BY <2>1, <2>3, <2>4, <2>5 DEF CopyInv
<1>4. CASE EndWrite
  <2>1. /\ phase = "writing" /\ phase' = "written"
        /\ UNCHANGED <<pic, bits, at, strip, scan, line>>
        /\ IF pic.type \in StripTypes THEN at.i >= pic.size ELSE line >= pic.h
    BY <1>4 DEF EndWrite
  <2>2. pic \in Pictures /\ pic.h \in Nat
    BY PicturesAssumption DEF CopyInv
  <2> QED
    BY <2>1, <2>2 DEF CopyInv
<1>5. CASE NoProfile \/ RELEASE
  BY <1>5 DEF NoProfile, RELEASE, CopyInv
<1>6. CASE UNCHANGED vars
  BY <1>6 DEF vars, CopyInv
<1> QED
  BY <1>1, <1>2, <1>3, <1>4, <1>5, <1>6 DEF Next

\* CopyInv holds throughout: where the loops of the process functions stand, and
\* what they have written so far.
THEOREM CopyCorrect == Spec => []CopyInv
<1>1. Init => CopyInv
  BY DEF Init, CopyInv
<1>2. CopyInv /\ [Next]_vars => CopyInv'
  BY CopyInvStep
<1> QED
  BY <1>1, <1>2, PTL DEF Spec

\* StripInPlace: the strip of process10tight and process12tight is right for data
\* of any size, with any room behind its rows.
THEOREM StripCorrect == Spec => []StripInPlace
<1>1. Init => StripInPlace
  BY DEF Init, StripInPlace
<1>2. CopyInv /\ StripInPlace /\ [Next]_vars => StripInPlace'
  <2> SUFFICES ASSUME CopyInv, StripInPlace, [Next]_vars
               PROVE  StripInPlace'
    OBVIOUS
  <2>1. CASE BeginWrite
    <3>1. pic' = pic /\ pic \in Pictures
      BY <2>1 DEF BeginWrite, CopyInv
    <3>2. CASE pic.type \in StripTypes
      <4> DEFINE n == GroupBytes[pic.type]
      <4>1. at'.m = 0
        BY <2>1, <3>2 DEF BeginWrite
      <4>2. n \in Nat /\ ShouldBe(pic) \in Nat /\ pic.groups \in Nat /\ pic.h \in Nat
        BY <3>1, <3>2, StripPicture
      <4>3. ASSUME NEW r \in 0..(pic.h - 1), NEW k \in 0..(pic.groups - 1)
            PROVE  ~ at'.m > r * ShouldBe(pic) + k * n
        <5>1. r * ShouldBe(pic) \in Nat /\ k * n \in Nat
          BY <4>2
        <5> QED
          BY <4>1, <5>1
      <4> QED
        BY <3>1, <4>3 DEF StripInPlace
    <3>3. CASE pic.type \notin StripTypes
      BY <3>1, <3>3 DEF StripInPlace
    <3> QED
      BY <3>2, <3>3
  <2>2. CASE CopyGroup
    BY <2>2, StripStep
  <2>3. CASE NoProfile \/ UnpackLine \/ EndWrite \/ RELEASE \/ UNCHANGED vars
    BY <2>3 DEF NoProfile, UnpackLine, EndWrite, RELEASE, vars, StripInPlace
  <2> QED
    BY <2>1, <2>2, <2>3 DEF Next
<1> QED
  BY <1>1, <1>2, CopyCorrect, PTL DEF Spec
------------------------------------------------------------------------------
\* A group of a picture is bytes of its data.
LEMMA GroupInside ==
  ASSUME NEW p \in Pictures, NEW r \in 0..(p.h - 1), NEW k \in 0..(p.groups - 1)
  PROVE  GroupAt(p, r * RowBytes(p) + k * GroupBytes[p.type])
           \in [0..(GroupBytes[p.type] - 1) -> Byte]
<1> DEFINE n == GroupBytes[p.type]
           R == RowBytes(p)
           G == p.groups
<1>1. /\ n \in {3, 5, 8} /\ G \in Nat /\ p.h \in Nat /\ p.size \in Nat
      /\ R >= G * n /\ p.h * R <= p.size /\ p.bytes \in [0..(p.size - 1) -> Byte]
  <2>1. n \in {3, 5, 8}
    BY PicturesAssumption DEF GroupBytes, RawTypes, Mipi, Mipi12, Mipi16, Qcom, Plain
  <2> QED
    BY <2>1, PicturesAssumption DEF ShouldBe
<1>2. R \in Nat
  <2>1. CASE p.type \in StripTypes
    <3>1. R = p.stride
      BY <2>1 DEF RowBytes, StripTypes, Mipi, Mipi12, Qcom, Plain
    <3> QED
      BY <3>1, PicturesAssumption
  <2>2. CASE p.type \in {Qcom, Plain}
    BY <1>1, <2>2 DEF RowBytes, ShouldBe, StripTypes, Mipi, Mipi12, Qcom, Plain
  <2>3. CASE p.type = Mipi16
    <3>1. R = IF p.rowSize = 0 THEN 8 * ((5 * Width(p) + 31) \div 32) ELSE p.rowSize
      BY <2>3 DEF RowBytes, StripTypes, Mipi, Mipi12, Mipi16, Qcom, Plain
    <3>2. Width(p) \in Nat
      BY <1>1, <2>3 DEF Width, GroupPixels, RawTypes, Mipi, Mipi12, Mipi16, Qcom, Plain
    <3>3. (5 * Width(p) + 31) \div 32 \in Nat
      BY <3>2
    <3>4. p.rowSize \in Nat
      BY PicturesAssumption
    <3> QED
      BY <3>1, <3>3, <3>4
  <2> QED
    BY <2>1, <2>2, <2>3, PicturesAssumption DEF RawTypes, StripTypes
<1>3. r * R + k * n \in Nat /\ r * R + k * n + n <= p.size
  <2> DEFINE H == p.h
             Z == p.size
  <2>1. /\ H \in Nat /\ Z \in Nat /\ H * R <= Z
        /\ r \in 0..(H - 1) /\ k \in 0..(G - 1)
    BY <1>1
  <2>2. r * R + k * n \in Nat /\ r * R + k * n + n <= Z
    <3> HIDE DEF n, R, G, H, Z
    <3>1. (r + 1) * R <= H * R
      BY <1>2, <2>1
    <3>2. (k + 1) * n <= G * n
      BY <1>1, <2>1
    <3>3. (r + 1) * R = r * R + R /\ (k + 1) * n = k * n + n
      BY <1>1, <1>2, <2>1
    <3>4. r * R \in Nat /\ k * n \in Nat /\ G * n \in Nat
      BY <1>1, <1>2, <2>1
    <3>5. r * R + R <= Z
      <4>1. H * R \in Nat
        BY <1>2, <2>1
      <4> QED
        BY <1>2, <2>1, <3>1, <3>3, <3>4, <4>1
    <3>6. k * n + n <= R
      BY <1>1, <1>2, <3>2, <3>3, <3>4
    <3> QED
      BY <1>1, <1>2, <2>1, <3>4, <3>5, <3>6
  <2> QED
    BY <2>2
<1> DEFINE from == r * R + k * n
<1>4. ASSUME NEW j \in 0..(n - 1)
      PROVE  p.bytes[from + j] \in Byte
  <2>1. from \in Nat /\ from + n <= p.size
    BY <1>3
  <2>2. n \in Nat /\ p.size \in Nat
    BY <1>1
  <2> HIDE DEF n, R, from
  <2>3. from + j \in 0..(p.size - 1)
    BY <2>1, <2>2
  <2> QED
    BY <1>1, <2>3
<1> QED
  BY <1>4 DEF GroupAt

\* When the strip loop ends the strip is full.
LEMMA StripFull ==
  ASSUME CopyInv, phase = "written", pic.type \in StripTypes
  PROVE  at.m >= pic.h * ShouldBe(pic)
<1> DEFINE n == GroupBytes[pic.type]
           G == pic.groups
           D == pic.stride
           S == ShouldBe(pic)
           H == pic.h
           Z == pic.size
<1>1. /\ n \in {3, 5} /\ G \in Nat /\ D \in Nat /\ H \in Nat /\ Z \in Nat
      /\ S = G * n /\ S \in Nat /\ S > 0 /\ D >= S /\ H * D <= Z
  BY StripPicture DEF CopyInv
<1>2. PICK r \in 0..Z, k \in 0..G :
        at = [i |-> r * D + k * n, row |-> r * D + S, m |-> r * S + k * n]
  BY Zenon DEF CopyInv
<1>3. r * D + k * n >= Z /\ at.m = r * S + k * n
  <2>1. at.i >= Z
    BY DEF CopyInv
  <2> QED
    BY <1>2, <2>1
<1>4. r * S + k * n >= H * S
  <2> HIDE DEF n, G, D, S, H, Z
  <2>1. k * n \in Nat /\ k * n <= S /\ r * D \in Nat /\ r * S \in Nat
    BY <1>1
  <2>2. CASE r >= H
    <3>1. r * S >= H * S
      BY <1>1, <2>2
    <3> QED
      BY <1>1, <2>1, <3>1
  <2>3. CASE r < H
    <3>1. (r + 1) * D <= H * D
      BY <1>1, <2>3
    <3>2. (r + 1) * D = r * D + D
      BY <1>1
    <3>3. H * D \in Nat
      BY <1>1
    <3>4. k * n = S /\ D = S /\ r * D + D = H * D
      BY <1>1, <1>3, <2>1, <3>1, <3>2, <3>3
    <3>5. r * S + S = H * S
      BY <3>4, Zenon
    <3> QED
      BY <2>1, <3>3, <3>4, <3>5
  <2> QED
    BY <1>1, <2>2, <2>3
<1> QED
  BY <1>3, <1>4

\* A column's group and its place in it.
LEMMA Column ==
  ASSUME NEW p \in Pictures, NEW c \in 0..(Width(p) - 1)
  PROVE  LET m == GroupPixels[p.type]
         IN  /\ m \in {2, 4, 6} /\ c \div m \in 0..(p.groups - 1)
             /\ c % m \in 0..(m - 1)
<1> DEFINE m == GroupPixels[p.type]
           G == p.groups
<1>1. m \in {2, 4, 6} /\ G \in Nat /\ c \in 0..(G * m - 1)
  BY PicturesAssumption
  DEF GroupPixels, RawTypes, Mipi, Mipi12, Mipi16, Qcom, Plain, Width
<1>2. c \div m \in 0..(G - 1) /\ c % m \in 0..(m - 1)
  <2>1. CASE m = 2
    BY <1>1, <2>1
  <2>2. CASE m = 4
    BY <1>1, <2>2
  <2>3. CASE m = 6
    BY <1>1, <2>3
  <2> QED
    BY <1>1, <2>1, <2>2, <2>3
<1> QED
  BY <1>1, <1>2
------------------------------------------------------------------------------
\* A picture whose pixels are in a strip of ten bits reads back.
LEMMA StripReadsBack ==
  ASSUME CopyInv, StripInPlace, phase = "written", pic.type = Mipi,
         NEW r \in 0..(pic.h - 1), NEW c \in 0..(Width(pic) - 1)
  PROVE  Read(pic, r, c) = Pixel(pic, r, c)
<1> DEFINE k == c \div 4
           d == c % 4
           S == ShouldBe(pic)
           x == GroupAt(pic, r * RowBytes(pic) + k * 5)
           g == Repack10(x)
           j == r * S + 5 * k
<1>1. /\ pic \in Pictures /\ pic.type \in StripTypes /\ bits = 10
      /\ GroupBytes[pic.type] = 5 /\ GroupPixels[pic.type] = 4
      /\ RowBytes(pic) = pic.stride
  <2>1. pic \in Pictures /\ pic.type \in StripTypes /\ bits = BitsPerSample(pic.type)
    BY DEF CopyInv, StripTypes
  <2>2. BitsPerSample(pic.type) = 10
    BY DEF BitsPerSample, Mipi
  <2>3. GroupBytes[pic.type] = 5 /\ GroupPixels[pic.type] = 4
    BY DEF GroupBytes, GroupPixels, RawTypes, Mipi, Mipi12, Mipi16, Qcom, Plain
  <2>4. RowBytes(pic) = pic.stride
    BY <2>1 DEF RowBytes, StripTypes, Mipi, Mipi12, Qcom, Plain
  <2> QED
    BY <2>1, <2>2, <2>3, <2>4
<1>2. k \in 0..(pic.groups - 1) /\ d \in 0..3
  BY <1>1, Column
<1>3. x \in [0..4 -> Byte]
  <2>1. GroupAt(pic, r * RowBytes(pic) + k * GroupBytes[pic.type])
          \in [0..(GroupBytes[pic.type] - 1) -> Byte]
    BY <1>1, <1>2, GroupInside
  <2> HIDE DEF k
  <2>2. GroupAt(pic, r * RowBytes(pic) + k * 5) \in [0..(5 - 1) -> Byte]
    BY <1>1, <2>1, Zenon
  <2>3. 5 - 1 = 4
    OBVIOUS
  <2> QED
    BY <2>2, <2>3, Zenon
<1>4. at.m > r * S + k * 5 /\ r * S \in Nat
  <2> DEFINE G == pic.groups
             H == pic.h
  <2>1. S = G * 5 /\ G \in Nat /\ H \in Nat /\ r \in 0..(H - 1) /\ at.m >= H * S
        /\ k \in 0..(G - 1)
    BY <1>1, <1>2, StripPicture, StripFull
  <2> HIDE DEF S, G, H, k
  <2>2. (r + 1) * S <= H * S
    BY <2>1
  <2>3. (r + 1) * S = r * S + S /\ r * S \in Nat /\ H * S \in Nat
    BY <2>1
  <2>4. k * 5 < S
    BY <2>1
  <2>5. at.m \in Int
    <3>1. PICK i \in 0..pic.size, l \in 0..pic.groups :
            at.m = i * ShouldBe(pic) + l * GroupBytes[pic.type]
      <4>1. \E i \in 0..pic.size, l \in 0..pic.groups :
              at = [i   |-> i * pic.stride + l * GroupBytes[pic.type],
                    row |-> i * pic.stride + ShouldBe(pic),
                    m   |-> i * ShouldBe(pic) + l * GroupBytes[pic.type]]
        BY <1>1, Zenon DEF CopyInv
      <4> QED
        BY <4>1
    <3>2. ShouldBe(pic) \in Nat /\ pic.size \in Nat /\ pic.groups \in Nat
      BY <1>1, StripPicture
    <3> QED
      BY <1>1, <3>1, <3>2
  <2> QED
    BY <2>1, <2>2, <2>3, <2>4, <2>5
<1>5. \A b \in 0..4 : strip[(r * S + k * 5) + b] = g[b]
  <2>1. Repack(pic.type, GroupAt(pic, r * pic.stride + k * 5)) = g
    BY <1>1 DEF Repack
  <2> HIDE DEF k, g
  <2>2. \A b \in 0..(5 - 1) : strip[(r * S + k * 5) + b]
          = Repack(pic.type, GroupAt(pic, r * pic.stride + k * 5))[b]
    BY <1>1, <1>2, <1>4 DEF StripInPlace
  <2> QED
    BY <2>1, <2>2
<1>6. /\ strip[j + d] = g[d] /\ strip[j + d + 1] = g[d + 1]
  <2> HIDE DEF k, d, g
  <2>1. j + d = (r * S + k * 5) + d /\ j + d + 1 = (r * S + k * 5) + (d + 1)
    <3>1. k \in Nat
      <4>1. pic.groups \in Nat
        BY <1>1, StripPicture
      <4> QED
        BY <1>2, <4>1
    <3> HIDE DEF S
    <3> QED
      BY <1>2, <1>4, <3>1
  <2>2. d \in 0..4 /\ d + 1 \in 0..4
    BY <1>2
  <2>3. /\ strip[(r * S + k * 5) + d] = g[d]
        /\ strip[(r * S + k * 5) + (d + 1)] = g[d + 1]
    <3> HIDE DEF S
    <3> QED
      BY <1>5, <2>2, Zenon
  <2> HIDE DEF j, S
  <2> QED
    BY <2>1, <2>3
<1>7. Read(pic, r, c) = ((256 * g[d] + g[d + 1]) \div Pairs(3 - d)) % 1024
  <2>1. Read(pic, r, c)
          = ((256 * strip[j + d] + strip[j + d + 1]) \div Pairs(3 - d)) % 1024
    BY <1>1 DEF Read
  <2>2. strip[j + d] = g[d] /\ strip[j + d + 1] = g[d + 1]
    BY <1>6
  <2> HIDE DEF g, d, j
  <2> QED
    BY <2>1, <2>2
<1>8. Pixel(pic, r, c) = 4 * x[d] + ((x[4] \div Pairs(d)) % 4)
  <2>1. x = GroupAt(pic, r * RowBytes(pic) + (c \div GroupPixels[pic.type])
                                                * GroupBytes[pic.type])
        /\ d = c % GroupPixels[pic.type]
    BY <1>1
  <2> HIDE DEF x, d
  <2> QED
    BY <2>1 DEF Pixel, Mipi, Mipi16, Qcom
<1> HIDE DEF g, d, x
<1> QED
  BY <1>2, <1>3, <1>7, <1>8, RepackKeepsPixels DEF g

\* A picture that is written in scanlines of 16 bits reads back.
LEMMA ScanReadsBack ==
  ASSUME CopyInv, phase = "written", pic.type \notin StripTypes,
         NEW r \in 0..(pic.h - 1), NEW c \in 0..(Width(pic) - 1)
  PROVE  Read(pic, r, c) = Pixel(pic, r, c)
<1> DEFINE m == GroupPixels[pic.type]
           n == GroupBytes[pic.type]
           k == c % m
           x == GroupAt(pic, r * RowBytes(pic) + (c \div m) * n)
<1>1. pic \in Pictures /\ pic.type \in {Qcom, Plain, Mipi16} /\ bits = 16
  <2>1. pic \in Pictures /\ bits = BitsPerSample(pic.type)
    BY DEF CopyInv
  <2>2. pic.type \in {Qcom, Plain, Mipi16}
    BY <2>1, PicturesAssumption DEF RawTypes, StripTypes
  <2>3. BitsPerSample(pic.type) = 16
    BY <2>2 DEF BitsPerSample, Qcom, Plain, Mipi16
  <2> QED
    BY <2>1, <2>2, <2>3
<1>2. Read(pic, r, c) = Sample(pic.type, x, k)
  <2>1. scan[r] = Scanline(pic, r)
    <3>1. line = pic.h /\ \A s \in 0..(line - 1) : scan[s] = Scanline(pic, s)
      BY DEF CopyInv
    <3> QED
      BY <3>1
  <2>2. Scanline(pic, r)[c] = Sample(pic.type, x, k)
    BY DEF Scanline
  <2> QED
    BY <1>1, <2>1, <2>2 DEF Read
<1>3. /\ k \in 0..(m - 1) /\ c \div m \in 0..(pic.groups - 1)
  BY <1>1, Column
<1>4. x \in [0..(n - 1) -> Byte]
  BY <1>1, <1>3, GroupInside
<1>5. CASE pic.type = Qcom
  <2>1. m = 6 /\ n = 8
    BY <1>5 DEF GroupBytes, GroupPixels, RawTypes, Mipi, Mipi12, Mipi16, Qcom, Plain
  <2>2. Sample(pic.type, x, k) = Loose(x, k)
    BY <1>5 DEF Sample, Qcom, Mipi16
  <2>3. Pixel(pic, r, c)
          = (x[k + (k \div 4)] \div Pairs(k % 4))
              + (256 \div Pairs(k % 4)) * (x[k + (k \div 4) + 1] % (4 * Pairs(k % 4)))
    BY <1>5 DEF Pixel, Qcom, Mipi, Mipi16
  <2> HIDE DEF x, k
  <2>4. k \in 0..5 /\ x \in [0..7 -> Byte]
    BY <1>3, <1>4, <2>1
  <2>5. Loose(x, k)
          = (x[k + (k \div 4)] \div Pairs(k % 4))
              + (256 \div Pairs(k % 4)) * (x[k + (k \div 4) + 1] % (4 * Pairs(k % 4)))
    BY <2>4, LooseKeepsPixels
  <2> QED
    BY <1>2, <2>2, <2>3, <2>5, Zenon
<1>6. CASE pic.type = Mipi16
  <2>1. Sample(pic.type, x, k) = 4 * x[k] + ((x[4] \div Pairs(k)) % 4)
    <3> HIDE DEF x, k
    <3>1. Sample(pic.type, x, k) = Tight(x, k)
      BY <1>6 DEF Sample, Mipi16, Qcom
    <3> QED
      BY <3>1, Zenon DEF Tight
  <2>2. Pixel(pic, r, c) = 4 * x[k] + ((x[4] \div Pairs(k)) % 4)
    <3>1. x = GroupAt(pic, r * RowBytes(pic) + (c \div GroupPixels[pic.type])
                                                  * GroupBytes[pic.type])
          /\ k = c % GroupPixels[pic.type]
      BY Zenon
    <3> HIDE DEF x, k
    <3> QED
      BY <1>6, <3>1 DEF Pixel, Mipi, Mipi16, Qcom
  <2> QED
    BY <1>2, <2>1, <2>2, Zenon
<1>7. CASE pic.type = Plain
  <2>1. Sample(pic.type, x, k) = x[2 * k] + 256 * x[2 * k + 1]
    BY <1>7 DEF Sample, Plain16, Mipi16, Qcom, Plain
  <2>2. Pixel(pic, r, c) = x[2 * k] + 256 * x[2 * k + 1]
    BY <1>7 DEF Pixel, Mipi, Mipi16, Qcom, Plain
  <2> QED
    BY <1>2, <2>1, <2>2, Zenon
<1> QED
  BY <1>1, <1>5, <1>6, <1>7

\* ReadsBack: every pixel is in the file with all of its bits, for pictures of any
\* size, any room behind their rows and any bytes.
THEOREM PixelsCorrect == Spec => []ReadsBack
<1>1. CopyInv /\ StripInPlace => ReadsBack
  <2> SUFFICES ASSUME CopyInv, StripInPlace, phase = "written", pic.type # Mipi12,
                      NEW r \in 0..(pic.h - 1), NEW c \in 0..(Width(pic) - 1)
               PROVE  Read(pic, r, c) = Pixel(pic, r, c)
    BY DEF ReadsBack
  <2>1. CASE pic.type = Mipi
    BY <2>1, StripReadsBack
  <2>2. CASE pic.type # Mipi
    BY <2>2, ScanReadsBack DEF StripTypes
  <2> QED
    BY <2>1, <2>2
<1> QED
  BY <1>1, CopyCorrect, StripCorrect, PTL
==============================================================================
